---- MODULE Spec2Model ----
(***************************************************************************)
(* Model of the audio-capture and speech-model core of the application:    *)
(*   src-tauri/src/audio.rs    AudioRecorder                               *)
(*   src-tauri/src/whisper.rs  WhisperManager                              *)
(*   src-tauri/src/lib.rs      the Tauri commands that call them           *)
(*                                                                         *)
(* The module holds one set of variables and several specifications, one   *)
(* per group of commands:                                                  *)
(*   SpecPath      delete_recording and transcribe_audio (path validation) *)
(*   SpecDownload  download / cancel / progress / status commands          *)
(*   SpecManager   one WhisperManager used through its own methods         *)
(*   SpecRecorder  the AudioRecorder session                               *)
(***************************************************************************)
EXTENDS Integers, Sequences, FiniteSets, TLC

None == "None"

(***************************************************************************)
(* Bounds of the model.                                                    *)
(***************************************************************************)
\* longest input path (in components) handed to a command
MaxPathLen == 3
\* number of chunks of a model's response body
BodyLen == 2

(***************************************************************************)
(* whisper.rs: the three models.                                           *)
(***************************************************************************)
WhisperModel == {"Tiny", "Small", "Medium"}

DefaultModelTiny == "Tiny"

DefaultModel == "Small"

\* WhisperLanguage and WhisperLanguage::default
WhisperLanguage == {"Auto", "German", "English"}

DefaultLanguage == "Auto"

(***************************************************************************)
(* The recordings side of the file system.  A path is a sequence of        *)
(* components read from the root; ".." is a component like any other until *)
(* it is resolved.  The layout is                                          *)
(*     /recordings            the managed recordings directory             *)
(*     /recordings/a.wav      a recording                                  *)
(*     /recordings/link       a symbolic link to /secret                   *)
(*     /secret                a file outside the recordings directory      *)
(***************************************************************************)
RecordingsDir == <<"recordings">>

RecordingA == <<"recordings", "a.wav">>

SecretFile == <<"secret">>

LinkInside == <<"recordings", "link">>

RegularFiles == {RecordingA, SecretFile}

\* values that stand where a path is expected and there is none
NoPath == <<"-">>

Err == <<"io error">>

SymlinkTarget(p) == IF p = LinkInside THEN SecretFile ELSE NoPath

PathNames == {"..", "recordings", "a.wav", "link", "secret"}

RECURSIVE SeqsUpTo(_, _)
SeqsUpTo(S, n) ==
    IF n = 0 THEN {<<>>}
    ELSE LET shorter == SeqsUpTo(S, n - 1)
         IN shorter \cup {Append(s, x) : s \in {t \in shorter : Len(t) = n - 1}, x \in S}

InputPaths == SeqsUpTo(PathNames, MaxPathLen) \ {<<>>}

\* kinds of content of a regular file: absent; wav, a WAV file whose samples
\* all read; damaged, a WAV header followed by data of which some samples read
\* and others fail to; empty, a WAV header with no sample that reads; bad,
\* bytes that do not open as a WAV file, a zero-length file among them
FileKinds == {"absent", "wav", "damaged", "empty", "bad"}

VARIABLES
    recFiles,        \* the regular files of the recordings side: file -> kind
    recDirOk,        \* whether the recordings directory exists (create_dir_all worked)
    lastDelete,      \* the last delete_recording call: what it saw and did
    ta,              \* the transcribe_audio command in flight (or the last one)
    contentRead,     \* the regular files whose content a command has read
    settings_model,  \* WhisperManager.settings.model of the application's manager
    context,         \* WhisperManager.context: None, or the model it was built from
    loaded_model,    \* WhisperManager.loaded_model
    lastEngine,      \* the last call of an engine method: what it did and returned
    modelFiles,      \* the models directory: path -> content, a sequence of
                     \* chunks (0: a hole), or NoFile
    mgr_cancel,      \* per manager: WhisperManager.download_cancel
    mgr_bytes,       \* per manager: WhisperManager.downloaded_bytes
    mgr_progress,    \* per manager: WhisperManager.download_progress
    dl,              \* the download_model calls: call -> its position and locals
    started,         \* the number of download_model calls made so far
    is_recording,    \* AudioRecorder.is_recording
    current_level,   \* AudioRecorder.current_level
    stream,          \* AudioRecorder.stream: NoStream, or the config of the
                     \* stream the session holds
    samples,         \* AudioRecorder.samples, the mono samples captured
    source_sample_rate, \* AudioRecorder.source_sample_rate
    recording_start, \* AudioRecorder.recording_start: None or Some
    stream_error,    \* AudioRecorder.stream_error: None or Some
    callback,        \* the callback thread of the input stream: idle, passed
                     \* (the data callback is past its check of the flag) or
                     \* latched (the error callback has stored the error)
    wavWritten,      \* the number of WAV files export_wav has created
    lastStart,       \* the result of the last start_recording call
    lastStop,        \* the result of the last stop_recording call
    stopCalls,       \* the number of stop_recording calls made so far
    startCalls,      \* the number of start_recording calls made so far
    peakStreams,     \* the most capture streams the session had open at one
                     \* moment of the last start_recording call
    startSpace,      \* the free space the last start_recording call found
    exportCall,      \* what the stop_recording call of the current recording
                     \* resampled, handed to export_wav and wrote
    deviceProbe,     \* the last call of get_device made on its own
    settings_language, \* WhisperManager.settings.language
    settings_use_gpu,  \* WhisperManager.settings.use_gpu
    deleting,        \* the delete_whisper_model command in flight: None, or the
                     \* model whose file it is about to remove
                     \* while it awaits or does file I/O
    elapsed          \* the seconds gone by since the instant in recording_start

pathVars == <<recFiles, recDirOk, lastDelete, ta, contentRead>>

engineVars == <<settings_model, context, loaded_model, lastEngine>>

storeVars == <<modelFiles>>

downloadVars == <<mgr_cancel, mgr_bytes, mgr_progress, dl, started>>

\* the fields of the AudioRecorder and the files it has written
recorderState == <<is_recording, current_level, stream, samples, source_sample_rate,
                   recording_start, stream_error, wavWritten>>

recorderVars == <<recorderState, callback, lastStart, lastStop, stopCalls, startCalls,
                  peakStreams, startSpace, exportCall, deviceProbe>>

\* the rest of the manager's settings, the commands in flight and the clock
appVars == <<settings_language, settings_use_gpu, deleting, elapsed>>


(***************************************************************************)
(* Path resolution as the operating system does it (realpath): components  *)
(* are consumed left to right, ".." steps to the parent, a symbolic link   *)
(* is replaced by its target, and a component that does not exist, or that *)
(* is looked up in something that is no directory, fails.                  *)
(***************************************************************************)
IsDirectory(p, dirOk) == p = <<>> \/ (p = RecordingsDir /\ dirOk)

FileExists(p, files, dirOk) ==
    /\ p \in RegularFiles
    /\ files[p] # "absent"
    /\ (p = RecordingA => dirOk)

Parent(p) == IF p = <<>> THEN <<>> ELSE SubSeq(p, 1, Len(p) - 1)

RECURSIVE ResolveFrom(_, _, _, _)
ResolveFrom(cur, rest, files, dirOk) ==
    IF cur = Err THEN Err
    ELSE IF rest = <<>> THEN cur
    ELSE IF ~IsDirectory(cur, dirOk) THEN Err
    ELSE IF Head(rest) = ".." THEN ResolveFrom(Parent(cur), Tail(rest), files, dirOk)
    ELSE LET next == Append(cur, Head(rest))
             target == SymlinkTarget(next)
         IN IF target # NoPath /\ dirOk
            THEN IF FileExists(target, files, dirOk)
                 THEN ResolveFrom(target, Tail(rest), files, dirOk)
                 ELSE Err
            ELSE IF IsDirectory(next, dirOk) \/ FileExists(next, files, dirOk)
                 THEN ResolveFrom(next, Tail(rest), files, dirOk)
                 ELSE Err

\* Path::canonicalize: the resolved absolute path, or an error
Canonicalize(p, files, dirOk) == ResolveFrom(<<>>, p, files, dirOk)

\* Path::starts_with: component-wise prefix
StartsWith(p, base) ==
    /\ Len(base) <= Len(p)
    /\ SubSeq(p, 1, Len(base)) = base

\* the containment test both commands make on the canonical forms
InRecordingsDirRaw(p, canonical_path, canonical_recordings_dir) ==
    StartsWith(p, RecordingsDir)

InRecordingsDir(p, canonical_path, canonical_recordings_dir) ==
    StartsWith(canonical_path, canonical_recordings_dir)

(***************************************************************************)
(* audio.rs: AudioRecorder::delete_recording.  Every failure is the        *)
(* variant WavWriteError carrying a message; the messages tell them apart. *)
(***************************************************************************)
ErrInvalidPath == <<"WavWriteError", "Invalid path">>

ErrRecordingsDir == <<"WavWriteError", "Failed to get recordings dir">>

ErrSecuritySameMessage == <<"WavWriteError", "Invalid path">>

ErrSecurity ==
    <<"WavWriteError", "Security error: Cannot delete files outside recordings directory">>

ErrDeleteFailed == <<"WavWriteError", "Failed to delete file">>

Ok == <<"Ok">>

\* delete_recording(file_path) as a function of what it finds: the record of
\* the call (canonical forms, result, the file it removed)
DeleteOutcome(p, files, dirOk, rmOk) ==
    LET canonical_path == Canonicalize(p, files, dirOk)
        canonical_recordings_dir == Canonicalize(RecordingsDir, files, dirOk)
        base == [canon |-> canonical_path, dirCanon |-> canonical_recordings_dir,
                 removed |-> NoPath]
    IN IF canonical_path = Err THEN base @@ [result |-> ErrInvalidPath]
       ELSE IF canonical_recordings_dir = Err THEN base @@ [result |-> ErrRecordingsDir]
       ELSE IF ~InRecordingsDir(p, canonical_path, canonical_recordings_dir)
            THEN base @@ [result |-> ErrSecurity]
       ELSE IF canonical_path \in RegularFiles /\ rmOk
            THEN [base EXCEPT !.removed = canonical_path] @@ [result |-> Ok]
       ELSE base @@ [result |-> ErrDeleteFailed]

DeleteRecording ==
    \E p \in InputPaths, rmOk \in BOOLEAN :
        LET out == DeleteOutcome(p, recFiles, recDirOk, rmOk)
        IN /\ lastDelete' = out
           /\ recFiles' = IF out.removed = NoPath THEN recFiles
                          ELSE [recFiles EXCEPT ![out.removed] = "absent"]
           /\ UNCHANGED <<appVars, recorderVars, recDirOk, ta, contentRead, engineVars,
                          storeVars, downloadVars>>


(***************************************************************************)
(* whisper.rs: the models directory.  A model has a final path and a       *)
(* `.downloading` temp path beside it; a file holds a sequence of chunks.  *)
(***************************************************************************)
Final(model) == <<model, "bin">>

Temp(model) == <<model, "downloading">>

StorePaths == {Final(m) : m \in WhisperModel} \cup {Temp(m) : m \in WhisperModel}

\* the response body of a model's download URL, chunk by chunk
FullBody == [i \in 1..BodyLen |-> i]

\* the content of a path at which there is no file
NoFile == <<-1>>

\* WhisperManager::is_model_downloaded
IsModelDownloadedAlways(model, d) == TRUE

IsModelDownloaded(model, d) == d[Final(model)] # NoFile

(***************************************************************************)
(* whisper.rs: WhisperError, as far as the model tells the variants apart. *)
(***************************************************************************)
ModelNotDownloaded == <<"ModelNotDownloaded">>

ModelLoadError == <<"ModelLoadError">>

TranscriptionError == <<"TranscriptionError">>

InvalidAudioFile == <<"InvalidAudioFile">>

DownloadError == <<"DownloadError">>

IoError == <<"IoError">>

InsufficientSpace == <<"InsufficientSpace">>

DownloadCancelled == <<"DownloadCancelled">>

HashVerificationFailed == <<"HashVerificationFailed">>

NoResult == <<"-">>

(***************************************************************************)
(* whisper.rs: WhisperManager::load_model on (settings.model, context,     *)
(* loaded_model), with the models directory d; loadOk says whether         *)
(* WhisperContext::new_with_params succeeds.                               *)
(***************************************************************************)
\* the check load_model makes first (whisper.rs 498-500)
AlreadyLoadedNever(sm, ctx, lm) == FALSE

AlreadyLoaded(sm, ctx, lm) == lm = sm /\ ctx # None

\* checked: the model file was looked for; attempted: the file operation of
\* the call, here new_with_params, was called; built: a context was constructed
LoadModel(sm, ctx, lm, d, loadOk) ==
    IF AlreadyLoaded(sm, ctx, lm)
    THEN [result |-> Ok, context |-> ctx, loaded_model |-> lm, checked |-> FALSE,
          attempted |-> FALSE, built |-> FALSE]
    ELSE IF ~IsModelDownloaded(sm, d)
    THEN [result |-> ModelNotDownloaded, context |-> ctx, loaded_model |-> lm,
          checked |-> TRUE, attempted |-> FALSE, built |-> FALSE]
    ELSE IF ~loadOk
    THEN [result |-> ModelLoadError, context |-> ctx, loaded_model |-> lm,
          checked |-> TRUE, attempted |-> TRUE, built |-> FALSE]
    ELSE [result |-> Ok, context |-> sm, loaded_model |-> sm, checked |-> TRUE,
          attempted |-> TRUE, built |-> TRUE]

(***************************************************************************)
(* whisper.rs: WhisperManager::transcribe.  wavKind is the kind of the     *)
(* file the path resolves to when it is opened; stateOk and fullOk say     *)
(* whether create_state and the inference run succeed.  The samples that   *)
(* fail to read are dropped (filter_map, whisper.rs 565-578), and the call *)
(* goes on with those that are left if there is one.                       *)
(***************************************************************************)
\* whether transcribe loads the model first (whisper.rs 541)
NeedsLoadNever(ctx) == FALSE

NeedsLoad(ctx) == ctx = None

Transcribe(sm, ctx, lm, d, wavKind, loadOk, stateOk, fullOk) ==
    LET ld == IF NeedsLoad(ctx)
              THEN LoadModel(sm, ctx, lm, d, loadOk)
              ELSE [result |-> Ok, context |-> ctx, loaded_model |-> lm,
                    checked |-> FALSE, attempted |-> FALSE, built |-> FALSE]
        eng == [context |-> ld.context, loaded_model |-> ld.loaded_model,
                loadAttempted |-> NeedsLoad(ctx), checked |-> ld.checked,
                built |-> ld.built, wavOpened |-> FALSE, wavRead |-> FALSE,
                stateCreated |-> FALSE, inferenceRun |-> FALSE]
        opened == [eng EXCEPT !.wavOpened = TRUE]
        read == [opened EXCEPT !.wavRead = TRUE]
    IN IF ld.result # Ok THEN eng @@ [result |-> ld.result]
       ELSE IF ld.context = None THEN eng @@ [result |-> ModelLoadError]
       ELSE IF wavKind = "absent" THEN opened @@ [result |-> InvalidAudioFile]
       ELSE IF wavKind \in {"bad", "empty"}
            THEN read @@ [result |-> InvalidAudioFile]
       ELSE IF ~stateOk
            THEN read @@ [result |-> TranscriptionError]
       ELSE IF ~fullOk
            THEN [read EXCEPT !.stateCreated = TRUE, !.inferenceRun = TRUE]
                 @@ [result |-> TranscriptionError]
       ELSE [read EXCEPT !.stateCreated = TRUE, !.inferenceRun = TRUE]
            @@ [result |-> Ok]

(***************************************************************************)
(* lib.rs: the transcribe_audio command.  The validation runs first, then  *)
(* the command takes the manager's lock and calls transcribe with the path *)
(* as it was given.                                                        *)
(***************************************************************************)
TaInvalidPath == <<"Invalid file path">>

TaRecordingsDir == <<"Failed to get recordings directory">>

TaAccessDenied == <<"Access denied: File must be in recordings directory">>

TaIdle == [pc |-> "idle", path |-> NoPath, canon |-> NoPath, result |-> NoResult,
           loadAttempted |-> FALSE, wavRead |-> FALSE, inferenceRun |-> FALSE]

\* the validation's verdict on a path
TaValidate(p, files, dirOk) ==
    LET canonical_path == Canonicalize(p, files, dirOk)
        canonical_recordings_dir == Canonicalize(RecordingsDir, files, dirOk)
    IN IF canonical_path = Err THEN TaInvalidPath
       ELSE IF canonical_recordings_dir = Err THEN TaRecordingsDir
       ELSE IF ~InRecordingsDir(p, canonical_path, canonical_recordings_dir)
            THEN TaAccessDenied
       ELSE Ok

TranscribeAudioValidate ==
    /\ ta.pc # "validated"
    /\ \E p \in InputPaths :
         LET verdict == TaValidate(p, recFiles, recDirOk)
         IN ta' = [TaIdle EXCEPT !.pc = IF verdict = Ok THEN "validated" ELSE "done",
                                 !.path = IF verdict = Ok THEN p ELSE NoPath,
                                 !.canon = Canonicalize(p, recFiles, recDirOk),
                                 !.result = IF verdict = Ok THEN NoResult ELSE verdict]
    /\ UNCHANGED <<appVars, recorderVars, recFiles, recDirOk, lastDelete, contentRead, engineVars,
                   storeVars, downloadVars>>

\* the kind of the file an open() of path p finds
OpenedKind(p, files, dirOk) ==
    LET f == Canonicalize(p, files, dirOk)
    IN IF f \in RegularFiles THEN files[f] ELSE "absent"

TranscribeAudioRun ==
    /\ ta.pc = "validated"
    /\ \E loadOk \in BOOLEAN, stateOk \in BOOLEAN, fullOk \in BOOLEAN :
         LET f == Canonicalize(ta.path, recFiles, recDirOk)
             out == Transcribe(settings_model, context, loaded_model, modelFiles,
                               OpenedKind(ta.path, recFiles, recDirOk),
                               loadOk, stateOk, fullOk)
         IN /\ ta' = [ta EXCEPT !.pc = "done", !.path = NoPath, !.result = out.result,
                                !.loadAttempted = out.loadAttempted,
                                !.wavRead = out.wavRead,
                                !.inferenceRun = out.inferenceRun]
            /\ context' = out.context
            /\ loaded_model' = out.loaded_model
            /\ contentRead' = IF out.wavRead THEN contentRead \cup {f} ELSE contentRead
    /\ UNCHANGED <<appVars, recorderVars, recFiles, recDirOk, lastDelete, settings_model, lastEngine,
                   storeVars, downloadVars>>


(***************************************************************************)
(* whisper.rs and lib.rs: the engine's methods as the commands call them   *)
(* on the application's manager, each under the manager's lock.            *)
(***************************************************************************)
\* the number of engine calls in one run of the model
MaxEngineCalls == 3

NoEngineCall == [seq |-> 0, op |-> None, model |-> None, wavKind |-> None,
                 result |-> NoResult, checked |-> FALSE, attempted |-> FALSE,
                 built |-> FALSE, wavOpened |-> FALSE, stateCreated |-> FALSE,
                 inferenceRun |-> FALSE, live |-> 0, repeat |-> FALSE]

\* the record of a call: its number, and whether the call before it was the
\* same operation on the same model
EngineCall(op, model) ==
    [NoEngineCall EXCEPT !.seq = lastEngine.seq + 1, !.op = op, !.model = model,
                         !.repeat = (lastEngine.op = op /\ lastEngine.model = model)]

\* the contexts that exist at the same time during a call that found ctx and
\* constructed a new context or did not: the new one is constructed before
\* the assignment that drops the old one (whisper.rs 514-517)
LiveContexts(ctx, built) ==
    (IF ctx # None THEN 1 ELSE 0) + (IF built THEN 1 ELSE 0)

\* WhisperManager::update_settings on the context and loaded_model
UpdateSettingsKeep(sm, ctx, lm, model) == [context |-> ctx, loaded_model |-> lm]

UpdateSettings(sm, ctx, lm, model) ==
    IF sm # model THEN [context |-> None, loaded_model |-> None]
    ELSE [context |-> ctx, loaded_model |-> lm]

\* the download_model calls that may be in progress at the same time
DownloadIds == {1, 2}

\* the locks of AppState that a download of the given origin holds while its
\* download_model call is at position pc: download_whisper_model drops the
\* manager lock (lib.rs 693-696) before it awaits download_model (703)
LocksOfDownloadHeld(origin, pc) ==
    IF origin = "command" /\ pc \in {"request", "stream"}
    THEN {"whisper_manager"} ELSE {}

LocksOfDownload(origin, pc) == {}

\* the locks delete_whisper_model holds between its unload and its removal of
\* the file of model: the block that locks the manager ends at lib.rs 746
LocksOfDeleteHeld(model) == IF model # None THEN {"whisper_manager"} ELSE {}

LocksOfDelete(model) == {}

LocksHeld ==
    UNION {LocksOfDownload(dl[c].origin, dl[c].pc) : c \in DownloadIds}
        \cup LocksOfDelete(deleting)

\* a command that takes the lock of a field of AppState waits while a
\* command in flight holds it
CanLock(lock) == lock \notin LocksHeld

\* the settings the settings command is invoked with: every model, with the
\* default language and GPU use or with another language and no GPU
SettingsChoices ==
    {[model |-> model, language |-> DefaultLanguage, use_gpu |-> TRUE] :
        model \in WhisperModel}
    \cup {[model |-> model, language |-> "German", use_gpu |-> FALSE] :
        model \in WhisperModel}

\* lib.rs set_whisper_settings: manager.update_settings(settings)
SetWhisperSettings ==
    /\ lastEngine.seq < MaxEngineCalls
    /\ CanLock("whisper_manager")
    /\ \E settings \in SettingsChoices :
         LET out == UpdateSettings(settings_model, context, loaded_model, settings.model)
         IN /\ settings_model' = settings.model
            /\ settings_language' = settings.language
            /\ settings_use_gpu' = settings.use_gpu
            /\ context' = out.context
            /\ loaded_model' = out.loaded_model
            /\ lastEngine' = [EngineCall("update_settings", settings.model) EXCEPT
                                 !.result = Ok,
                                 !.live = LiveContexts(context, FALSE)]
    /\ UNCHANGED <<deleting, elapsed, pathVars, storeVars, downloadVars,
                   recorderVars>>

\* lib.rs load_whisper_model: manager.load_model()
LoadWhisperModel ==
    /\ lastEngine.seq < MaxEngineCalls
    /\ CanLock("whisper_manager")
    /\ \E loadOk \in BOOLEAN :
         LET out == LoadModel(settings_model, context, loaded_model, modelFiles, loadOk)
         IN /\ context' = out.context
            /\ loaded_model' = out.loaded_model
            /\ lastEngine' = [EngineCall("load_model", settings_model) EXCEPT
                                 !.result = out.result,
                                 !.checked = out.checked,
                                 !.attempted = out.attempted,
                                 !.built = out.built,
                                 !.live = LiveContexts(context, out.built)]
    /\ UNCHANGED <<appVars, pathVars, settings_model, storeVars, downloadVars, recorderVars>>

\* WhisperManager::unload_model on the context and loaded_model
UnloadModelKeepsName(ctx, lm) == [context |-> None, loaded_model |-> lm]

UnloadModel(ctx, lm) == [context |-> None, loaded_model |-> None]

\* lib.rs unload_whisper_model: manager.unload_model()
UnloadWhisperModel ==
    /\ lastEngine.seq < MaxEngineCalls
    /\ CanLock("whisper_manager")
    /\ context' = UnloadModel(context, loaded_model).context
    /\ loaded_model' = UnloadModel(context, loaded_model).loaded_model
    /\ lastEngine' = [EngineCall("unload_model", None) EXCEPT
                         !.result = Ok,
                         !.live = LiveContexts(context, FALSE)]
    /\ UNCHANGED <<appVars, pathVars, settings_model, storeVars, downloadVars, recorderVars>>

\* manager.transcribe(wav_path) on a path whose file is of kind wavKind
TranscribeCall ==
    /\ lastEngine.seq < MaxEngineCalls
    /\ CanLock("whisper_manager")
    /\ \E wavKind \in FileKinds, loadOk \in BOOLEAN, stateOk \in BOOLEAN,
          fullOk \in BOOLEAN :
         LET out == Transcribe(settings_model, context, loaded_model, modelFiles,
                               wavKind, loadOk, stateOk, fullOk)
         IN /\ context' = out.context
            /\ loaded_model' = out.loaded_model
            /\ lastEngine' = [EngineCall("transcribe", settings_model) EXCEPT
                                 !.wavKind = wavKind,
                                 !.result = out.result,
                                 !.checked = out.checked,
                                 !.built = out.built,
                                 !.wavOpened = out.wavOpened,
                                 !.stateCreated = out.stateCreated,
                                 !.inferenceRun = out.inferenceRun,
                                 !.live = LiveContexts(context, out.built)]
    /\ UNCHANGED <<appVars, pathVars, settings_model, storeVars, downloadVars, recorderVars>>

\* WhisperManager::delete_model on the models directory d; rmOk says whether
\* remove_file succeeds, attempted whether it was called
DeleteModelAndTemp(model, d, rmOk) ==
    [files |-> [d EXCEPT ![Final(model)] = NoFile, ![Temp(model)] = NoFile],
     result |-> Ok, attempted |-> TRUE]

DeleteModel(model, d, rmOk) ==
    IF d[Final(model)] # NoFile
    THEN IF rmOk
         THEN [files |-> [d EXCEPT ![Final(model)] = NoFile], result |-> Ok,
               attempted |-> TRUE]
         ELSE [files |-> d, result |-> IoError, attempted |-> TRUE]
    ELSE [files |-> d, result |-> Ok, attempted |-> FALSE]

\* lib.rs delete_whisper_model, first block (743-746): the manager is locked,
\* unload_model() is called whatever model is loaded, and the lock is released
DeleteWhisperModelUnload ==
    /\ lastEngine.seq < MaxEngineCalls
    /\ CanLock("whisper_manager")
    /\ deleting = None
    /\ \E model \in WhisperModel : deleting' = model
    /\ context' = UnloadModel(context, loaded_model).context
    /\ loaded_model' = UnloadModel(context, loaded_model).loaded_model
    /\ UNCHANGED <<settings_language, settings_use_gpu, elapsed, pathVars,
                   settings_model, lastEngine, storeVars, downloadVars, recorderVars>>

\* lib.rs delete_whisper_model, the rest (748-750): delete_model(model), with
\* no lock held
DeleteWhisperModelRemove ==
    /\ lastEngine.seq < MaxEngineCalls
    /\ deleting # None
    /\ \E rmOk \in BOOLEAN :
         LET out == DeleteModel(deleting, modelFiles, rmOk)
         IN /\ modelFiles' = out.files
            /\ lastEngine' = [EngineCall("delete_model", deleting) EXCEPT
                                 !.result = out.result,
                                 !.attempted = out.attempted,
                                 !.live = LiveContexts(context, FALSE)]
    /\ deleting' = None
    /\ UNCHANGED <<settings_language, settings_use_gpu, elapsed, pathVars,
                   settings_model, context, loaded_model, downloadVars, recorderVars>>

(***************************************************************************)
(* whisper.rs: model download.  Sizes are counted in KiB.                  *)
(***************************************************************************)
\* WhisperModel::expected_size
ExpectedSize(model) ==
    CASE model = "Tiny" -> 75 * 1024
      [] model = "Small" -> 500 * 1024
      [] model = "Medium" -> 1500 * 1024

\* the size of one chunk of a response body
ChunkLen == 1

\* the number of download_model calls in one run of the model
MaxDownloadCalls == 2

\* manager 0 is the application's manager (AppState.whisper_manager); manager c
\* is the one the download command c creates for itself
AppManager == 0

Managers == {AppManager} \cup DownloadIds

\* free space the preflight may find: none, just too little, just enough;
\* -1 stands for a failed query
AvailChoices(model) == {-1, 0, 2 * ExpectedSize(model) - 1, 2 * ExpectedSize(model)}

\* The record of a call: pc is its position, avail the free space its
\* preflight found, requested whether it got as far as the HTTP request,
\* cancelReq whether a cancellation was asked for while it ran, seq its number
\* among the calls.  A call's open file is named by where its inode is now: at the temp path,
\* at the final path (after a rename), or at no path (unlinked).  Two calls
\* whose files are at the same path hold the same inode.  hashOk is whether
\* the SHA-256 of the received body began with the expected prefix, for a
\* call that got to the end of its stream and returned Ok.
DlIdle == [pc |-> "idle", model |-> None, mgr |-> AppManager, origin |-> None,
           file |-> "none", offset |-> 0, total |-> 0, result |-> NoResult,
           avail |-> 0, requested |-> FALSE, cancelReq |-> FALSE, seq |-> 0,
           hashOk |-> TRUE]

NoProgress == [model |-> None, downloaded_bytes |-> 0, total_bytes |-> 0,
               complete |-> FALSE]

\* write_all of one chunk at a file position: a position past the end leaves
\* a hole of zeros before it
WriteAt(content, pos, chunk) ==
    [i \in 1..(IF pos > Len(content) THEN pos ELSE Len(content)) |->
        IF i = pos THEN chunk
        ELSE IF i <= Len(content) THEN content[i]
        ELSE 0]

\* download_model up to the request (whisper.rs 355-390): the preflight, then
\* the flag and counter reset and the seeding of DownloadProgress
PreflightNoCheck(call, model, avail) ==
    IF avail = -1 THEN [call EXCEPT !.pc = "done", !.result = IoError]
    ELSE [call EXCEPT !.pc = "request", !.requested = TRUE]

Preflight(call, model, avail) ==
    IF avail = -1 THEN [call EXCEPT !.pc = "done", !.result = IoError]
    ELSE IF avail < ExpectedSize(model) * 2
    THEN [call EXCEPT !.pc = "done", !.result = InsufficientSpace]
    ELSE [call EXCEPT !.pc = "request", !.requested = TRUE]

SeededProgress(model) ==
    [model |-> model, downloaded_bytes |-> 0, total_bytes |-> ExpectedSize(model),
     complete |-> FALSE]

\* the start of download_model(model) as call c on manager m; fresh says that
\* the manager was created for this call (WhisperManager::new)
DownloadStart(c, model, m, origin, fresh) ==
    /\ dl[c].pc \in {"idle", "done"}
    /\ started < MaxDownloadCalls
    /\ started' = started + 1
    /\ \E avail \in AvailChoices(model) :
         LET call == Preflight([DlIdle EXCEPT !.model = model, !.mgr = m,
                                              !.origin = origin, !.avail = avail,
                                              !.seq = started + 1],
                               model, avail)
             passed == call.pc = "request"
         IN /\ dl' = [dl EXCEPT ![c] = call]
            /\ mgr_cancel' = IF passed \/ fresh
                             THEN [mgr_cancel EXCEPT ![m] = FALSE] ELSE mgr_cancel
            /\ mgr_bytes' = IF passed \/ fresh
                            THEN [mgr_bytes EXCEPT ![m] = 0] ELSE mgr_bytes
            /\ mgr_progress' =
                 IF passed THEN [mgr_progress EXCEPT ![m] = SeededProgress(model)]
                 ELSE IF fresh THEN [mgr_progress EXCEPT ![m] = NoProgress]
                 ELSE mgr_progress
    /\ UNCHANGED <<appVars, recorderVars, pathVars, engineVars, storeVars>>

\* the models the download commands are invoked with
RequestedModels == {"Tiny", "Small"}

\* lib.rs download_whisper_model: a manager of its own, then download_model
DownloadWhisperModel(c) ==
    /\ CanLock("whisper_manager")
    /\ \E model \in RequestedModels : DownloadStart(c, model, c, "command", TRUE)

\* WhisperManager::download_model called on the manager itself
DownloadModel(c) ==
    \E model \in RequestedModels : DownloadStart(c, model, AppManager, "method", FALSE)

\* a call that has returned: its file is closed and its locals are gone
Returned(call, result) ==
    [DlIdle EXCEPT !.pc = "done", !.result = result, !.model = call.model,
                   !.mgr = call.mgr, !.origin = call.origin,
                   !.requested = call.requested]

\* download_model from the response to the open temp file (whisper.rs 386-408):
\* send().await returns, the content length becomes the total, File::create
\* makes the temp file or truncates the one that is there
DownloadResponse(c) ==
    /\ dl[c].pc = "request"
    /\ \E sendOk \in BOOLEAN, createOk \in BOOLEAN, hasLength \in BOOLEAN :
         LET call == dl[c]
             m == call.mgr
             total_size == IF hasLength THEN BodyLen * ChunkLen
                           ELSE ExpectedSize(call.model)
             temp_path == Temp(call.model)
         IN IF ~sendOk
            THEN /\ dl' = [dl EXCEPT ![c] = Returned(call, DownloadError)]
                 /\ UNCHANGED <<mgr_progress, modelFiles>>
            ELSE /\ mgr_progress' =
                      IF mgr_progress[m] = NoProgress THEN mgr_progress
                      ELSE [mgr_progress EXCEPT ![m].total_bytes = total_size]
                 /\ IF ~createOk
                    THEN /\ dl' = [dl EXCEPT ![c] = Returned(call, IoError)]
                         /\ UNCHANGED modelFiles
                    ELSE /\ dl' = [dl EXCEPT ![c] = [call EXCEPT !.pc = "stream",
                                                                 !.file = "temp",
                                                                 !.offset = 0,
                                                                 !.avail = 0,
                                                                 !.total = total_size]]
                         /\ modelFiles' = [modelFiles EXCEPT ![temp_path] = <<>>]
    /\ UNCHANGED <<appVars, recorderVars, pathVars, engineVars, mgr_cancel, mgr_bytes, started>>

\* the calls other than c that hold a file of the same model at place
Holders(c, model, place) ==
    {x \in DownloadIds \ {c} : dl[x].model = model /\ dl[x].file = place}

\* remove_file(temp_path) with its result ignored: the path is gone, and the
\* calls that hold the file keep an unlinked inode
AfterRemoveTemp(c, model, calls) ==
    [x \in DownloadIds |->
        IF x \in Holders(c, model, "temp") THEN [calls[x] EXCEPT !.file = "unlinked"]
        ELSE calls[x]]

\* rename(temp_path, model_path): the inode at the temp path is now at the
\* final path, and the one that was there is unlinked
AfterRename(c, model, calls) ==
    [x \in DownloadIds |->
        IF x \in Holders(c, model, "temp") THEN [calls[x] EXCEPT !.file = "final"]
        ELSE IF x \in Holders(c, model, "final")
        THEN [calls[x] EXCEPT !.file = "unlinked"]
        ELSE calls[x]]

\* what the loop does to the temp path when it sees the cancel flag set
\* (whisper.rs 413-414)
OnCancelKeepTemp(d, temp_path) == d

OnCancel(d, temp_path) == [d EXCEPT ![temp_path] = NoFile]

\* whether the loop takes the cancellation branch for an item received while
\* the manager's flag has the value cancel (whisper.rs 412)
CancelIgnored(cancel) == FALSE

CancelSeen(cancel) == cancel

\* the path a call's open file is at, if it is at one
FilePath(call) ==
    CASE call.file = "temp" -> Temp(call.model)
      [] call.file = "final" -> Final(call.model)
      [] OTHER -> NoPath

\* one turn of the streaming loop (whisper.rs 410-452): stream.next().await
\* has returned an item, a chunk or an error
DownloadChunk(c) ==
    /\ dl[c].pc = "stream"
    /\ LET call == dl[c]
           m == call.mgr
           temp_path == Temp(call.model)
       IN IF CancelSeen(mgr_cancel[m])
          THEN /\ modelFiles' = OnCancel(modelFiles, temp_path)
               /\ dl' = IF modelFiles'[temp_path] = NoFile
                        THEN AfterRemoveTemp(c, call.model,
                                 [dl EXCEPT ![c] = Returned(call, DownloadCancelled)])
                        ELSE [dl EXCEPT ![c] = Returned(call, DownloadCancelled)]
               /\ mgr_progress' = [mgr_progress EXCEPT ![m] = NoProgress]
               /\ UNCHANGED mgr_bytes
          ELSE \E item \in {"chunk", "error"}, writeOk \in BOOLEAN, tick \in BOOLEAN :
                 /\ item = "chunk" => call.offset < BodyLen
                 /\ IF item = "error" \/ ~writeOk
                    THEN /\ dl' = [dl EXCEPT ![c] =
                                 Returned(call, IF item = "error" THEN DownloadError
                                                ELSE IoError)]
                         /\ UNCHANGED <<modelFiles, mgr_bytes, mgr_progress>>
                    ELSE LET downloaded == mgr_bytes[m] + ChunkLen
                             path == FilePath(call)
                         IN /\ modelFiles' = IF path = NoPath THEN modelFiles
                                        ELSE [modelFiles EXCEPT ![path] =
                                               WriteAt(@, call.offset + 1, call.offset + 1)]
                            /\ dl' = [dl EXCEPT ![c].offset = @ + 1]
                            /\ mgr_bytes' = [mgr_bytes EXCEPT ![m] = downloaded]
                            /\ mgr_progress' =
                                 IF tick /\ mgr_progress[m] # NoProgress
                                 THEN [mgr_progress EXCEPT ![m].downloaded_bytes = downloaded]
                                 ELSE mgr_progress
    /\ UNCHANGED <<appVars, recorderVars, pathVars, engineVars, mgr_cancel, started>>

\* whether download_model goes on to the rename once the hash of the body is
\* known (whisper.rs 457-465): the hash is logged next to the expected prefix
\* and not compared with it
HashAcceptedStrict(matches) == matches

HashAccepted(matches) == TRUE

\* the end of the stream (whisper.rs 454-481): the file is flushed and closed,
\* the hash logged, the temp file renamed to the final path, the progress
\* marked complete
DownloadEnd(c) ==
    /\ dl[c].pc = "stream"
    /\ dl[c].offset = BodyLen
    /\ \E renameOk \in BOOLEAN, matches \in BOOLEAN :
         LET call == dl[c]
             m == call.mgr
             temp_path == Temp(call.model)
             model_path == Final(call.model)
         IN IF ~HashAccepted(matches)
            THEN /\ dl' = [dl EXCEPT ![c] = Returned(call, HashVerificationFailed)]
                 /\ UNCHANGED <<modelFiles, mgr_progress>>
            ELSE IF modelFiles[temp_path] = NoFile \/ ~renameOk
            THEN /\ dl' = [dl EXCEPT ![c] = Returned(call, IoError)]
                 /\ UNCHANGED <<modelFiles, mgr_progress>>
            ELSE /\ modelFiles' = [modelFiles EXCEPT ![model_path] = modelFiles[temp_path],
                                           ![temp_path] = NoFile]
                 /\ dl' = AfterRename(c, call.model,
                                      [dl EXCEPT ![c] = [Returned(call, Ok) EXCEPT
                                                            !.hashOk = matches]])
                 /\ mgr_progress' =
                      IF mgr_progress[m] = NoProgress THEN mgr_progress
                      ELSE [mgr_progress EXCEPT ![m].complete = TRUE,
                                                ![m].downloaded_bytes = call.total]
    /\ UNCHANGED <<appVars, recorderVars, pathVars, engineVars, mgr_cancel, mgr_bytes, started>>

\* WhisperManager::cancel_download on manager m; each call that has passed its
\* flag reset and not returned notes that a cancellation was asked for
CancelOn(m) ==
    /\ mgr_cancel' = [mgr_cancel EXCEPT ![m] = TRUE]
    /\ dl' = [c \in DownloadIds |->
                IF dl[c].pc \in {"request", "stream"}
                THEN [dl[c] EXCEPT !.cancelReq = TRUE]
                ELSE dl[c]]
    /\ UNCHANGED <<appVars, recorderVars, pathVars, engineVars, storeVars, mgr_bytes, mgr_progress, started>>

\* lib.rs cancel_whisper_download, and cancel_download on the manager itself:
\* both act on manager 0
CancelWhisperDownload == CanLock("whisper_manager") /\ CancelOn(AppManager)

CancelDownload == CancelOn(AppManager)

\* WhisperManager::get_all_model_status, the `downloading` column: the models
\* the manager's DownloadProgress reports as being downloaded
DownloadingModels(progress) ==
    {model \in WhisperModel :
        progress # NoProgress /\ progress.model = model /\ ~progress.complete}

\* WhisperManager::get_download_progress on manager m; the command
\* get_whisper_download_progress asks the application's manager
GetDownloadProgress(m) == mgr_progress[m]

GetWhisperDownloadProgress == GetDownloadProgress(AppManager)

\* WhisperManager::get_all_model_status on manager m: per model, whether its
\* file is there, whether it is the loaded one, whether it is being downloaded
GetAllModelStatus(m) ==
    [model \in WhisperModel |->
        [downloaded |-> IsModelDownloaded(model, modelFiles),
         loaded |-> loaded_model = model,
         downloading |-> model \in DownloadingModels(mgr_progress[m])]]

GetWhisperModelStatus == GetAllModelStatus(AppManager)

\* WhisperManager::is_model_loaded
IsModelLoaded == context # None

(***************************************************************************)
(* audio.rs: the recorder.  A sample is its amplitude in tenths: 10 is the *)
(* full scale 1.0, and an input device may deliver more than that.         *)
(***************************************************************************)
\* audio.rs WHISPER_SAMPLE_RATE
WHISPER_SAMPLE_RATE == 16000

\* the sample rates an input device may report
DeviceRates == {16000, 44100}

\* the longest buffer of captured samples
MaxSamples == 2

\* the number of stop_recording calls in one run of the model
MaxStopCalls == 2

\* the number of start_recording calls in one run of the model
MaxStartCalls == 2

\* the session holds no stream (SendableStream(None))
NoStream == <<>>

\* the sample formats a device's default input config may have; the last one
\* stands for those start_recording does not support
SampleFormats == {"F32", "I16", "Other"}

\* the default input configs of the devices, without the rate: the sample
\* format and the number of channels.  A stream is named by the config it
\* was built with.
DeviceConfigs == {<<"F32", 1>>, <<"I16", 2>>, <<"Other", 1>>}

\* config.channels of a stream (audio.rs 353)
Channels(config) == config[2]

\* the data one callback may deliver to a stream with the given number of
\* channels, converted to f32 (f32::from_sample): interleaved frames
CallbackFrames(channels) ==
    IF channels = 1 THEN {<<>>, <<0>>, <<2>>, <<20>>}
    ELSE {<<>>, <<0, 0>>, <<4, 0>>, <<20, 20>>}

RECURSIVE Sum(_)
Sum(frame) == IF frame = <<>> THEN 0 ELSE Head(frame) + Sum(Tail(frame))

\* the data callback's mix to mono: the average of each frame's samples
\* (audio.rs 385-389)
RECURSIVE MixToMono(_, _)
MixToMono(data, channels) ==
    IF Len(data) < channels THEN <<>>
    ELSE <<Sum(SubSeq(data, 1, channels)) \div channels>>
         \o MixToMono(SubSeq(data, channels + 1, Len(data)), channels)

\* AudioError values
NotRecording == <<"NotRecording">>

NoAudioData == <<"WavWriteError", "No audio data recorded">>

ResampleError == <<"ResampleError">>

ExportError == <<"WavWriteError", "export">>

AudioInsufficientSpace == <<"AudioInsufficientSpace">>

NoDefaultDevice == <<"NoDefaultDevice">>

DeviceNotFound == <<"DeviceNotFound">>

ConfigError == <<"ConfigError">>

StreamError == <<"StreamError">>

DeviceDisconnected == <<"DeviceDisconnected">>

StopOk == <<"Ok", "RecordingResult">>

\* the largest r with r * r <= x
ISqrt(x) == CHOOSE r \in 0..1000 : r * r <= x /\ (r + 1) * (r + 1) > x

RECURSIVE SumSquares(_)
SumSquares(data) ==
    IF data = <<>> THEN 0 ELSE Head(data) * Head(data) + SumSquares(Tail(data))

\* rms * 100.0 * 3.0 for a non-empty buffer (audio.rs 398-400): with the
\* amplitudes in tenths, 30 times the root of the mean square
ScaledRms(data) == ISqrt((900 * SumSquares(data)) \div Len(data))

\* the level the data callback stores for a non-empty buffer: the scaled RMS
\* capped at 100 and cut to a whole number (audio.rs 398-401)
LevelUncapped(data) == ScaledRms(data)

LevelOf(data) == IF ScaledRms(data) > 100 THEN 100 ELSE ScaledRms(data)

(***************************************************************************)
(* audio.rs: the preflight of start_recording.                             *)
(***************************************************************************)
\* audio.rs 206
MIN_DISK_SPACE_BYTES == 100 * 1024 * 1024

\* the result of available_space when the query fails
SpaceUnknown == -1

\* the start_recording call did not get to the disk check
NotQueried == -2

\* what available_space may report, in bytes
SpaceChoices == {SpaceUnknown, MIN_DISK_SPACE_BYTES - 1, MIN_DISK_SPACE_BYTES}

\* check_disk_space (audio.rs 210-237)
CheckDiskSpaceStrict(space) ==
    IF space < MIN_DISK_SPACE_BYTES THEN AudioInsufficientSpace ELSE Ok

CheckDiskSpace(space) ==
    IF space = SpaceUnknown THEN Ok
    ELSE IF space < MIN_DISK_SPACE_BYTES THEN AudioInsufficientSpace
    ELSE Ok

\* the names of the input devices a host may have
DeviceNames == {"mic", "usb", "line"}

\* a device as get_device returns it
Device(name) == <<"Device", name>>

IsDevice(d) == d[1] = "Device"

\* get_device (audio.rs 179-193) with settings.device_id, the names of the
\* host's input devices, the name of its default input device, and whether
\* the enumeration of the devices succeeds
GetDeviceWithFallback(device_id, devices, default, enumOk) ==
    IF device_id # None /\ enumOk /\ device_id \in devices THEN Device(device_id)
    ELSE IF default # None THEN Device(default)
    ELSE NoDefaultDevice

GetDevice(device_id, devices, default, enumOk) ==
    IF device_id # None
    THEN IF ~enumOk THEN ConfigError
         ELSE IF device_id \in devices THEN Device(device_id)
         ELSE DeviceNotFound
    ELSE IF default # None THEN Device(default)
    ELSE NoDefaultDevice

\* the inputs of get_device: the configured id may name a device that is not
\* there, the default device is one of the devices
GetDeviceInputs ==
    {in \in [device_id : DeviceNames \cup {None}, devices : SUBSET DeviceNames,
             default : DeviceNames \cup {None}, enumOk : BOOLEAN] :
        in.default # None => in.default \in in.devices}

\* what get_device may return to start_recording
GetDeviceOutcomes ==
    {GetDevice(in.device_id, in.devices, in.default, in.enumOk) : in \in GetDeviceInputs}

NoProbe == [fn |-> None]

\* a call of get_device on its own
GetDeviceCall ==
    /\ \E in \in GetDeviceInputs :
         deviceProbe' = [fn |-> "get_device", in |-> in,
                         out |-> GetDevice(in.device_id, in.devices, in.default,
                                           in.enumOk)]
    /\ UNCHANGED <<appVars, pathVars, engineVars, storeVars, downloadVars, recorderState,
                   callback, lastStart, lastStop, stopCalls, startCalls, peakStreams,
                   startSpace, exportCall>>

(***************************************************************************)
(* audio.rs: start_recording and the callbacks of the stream.              *)
(***************************************************************************)
\* the streams alive while start_recording runs: the one the session holds is
\* dropped by the assignment of the new one, after build and play
\* (audio.rs 305-333)
StreamsWhileStarting(held, built) ==
    (IF held # NoStream THEN 1 ELSE 0) + (IF built THEN 1 ELSE 0)

\* the check start_recording makes first (audio.rs 272-274)
AlreadyRecordingNever(recording) == FALSE

AlreadyRecording(recording) == recording

\* what clear_stream_error leaves in stream_error (audio.rs 256-258)
ClearedErrorKept(previous) == previous

ClearedError(previous) == None

\* no export is on record
NoExport == [resampled |-> FALSE, failed |-> {}, called |-> FALSE, handed |-> <<>>,
             file |-> <<>>]

\* start_recording returns an error before it has stored the sample rate
\* (audio.rs 280-285)
StartFailsEarly(result) ==
    /\ lastStart' = result
    /\ peakStreams' = StreamsWhileStarting(stream, FALSE)
    /\ UNCHANGED <<elapsed, is_recording, stream, samples, source_sample_rate,
                   recording_start>>

\* start_recording returns an error after it has stored the sample rate and
\* cleared the buffer (audio.rs 287-331); built says whether build_stream had
\* made the new stream
StartFailsLateKeepsStream(result, rate, built) ==
    /\ lastStart' = result
    /\ peakStreams' = StreamsWhileStarting(stream, built)
    /\ source_sample_rate' = rate
    /\ samples' = <<>>
    /\ stream' = IF built THEN <<"F32", 1>> ELSE stream
    /\ UNCHANGED <<elapsed, is_recording, recording_start>>

StartFailsLate(result, rate, built) ==
    /\ lastStart' = result
    /\ peakStreams' = StreamsWhileStarting(stream, built)
    /\ source_sample_rate' = rate
    /\ samples' = <<>>
    /\ UNCHANGED <<elapsed, is_recording, stream, recording_start>>

\* what start_recording stores once the stream plays (audio.rs 333-335)
StartedSessionNoInstant(config) ==
    [stream |-> config, is_recording |-> TRUE, recording_start |-> None]

StartedSession(config) ==
    [stream |-> config, is_recording |-> TRUE, recording_start |-> "Some"]

\* start_recording (audio.rs 271-339)
StartRecording ==
    /\ startCalls < MaxStartCalls
    /\ CanLock("audio_recorder")
    /\ startCalls' = startCalls + 1
    /\ IF AlreadyRecording(is_recording)
       THEN /\ lastStart' = Ok
            /\ startSpace' = NotQueried
            /\ peakStreams' = StreamsWhileStarting(stream, FALSE)
            /\ UNCHANGED <<recorderState, exportCall, elapsed>>
       ELSE \E space \in SpaceChoices :
              /\ stream_error' = ClearedError(stream_error)
              /\ startSpace' = space
              /\ exportCall' = NoExport
              /\ UNCHANGED <<current_level, wavWritten>>
              /\ IF CheckDiskSpace(space) # Ok
                 THEN StartFailsEarly(CheckDiskSpace(space))
                 ELSE \E device \in GetDeviceOutcomes :
                        IF ~IsDevice(device)
                        THEN StartFailsEarly(device)
                        ELSE \E configOk \in BOOLEAN :
                               IF ~configOk
                               THEN StartFailsEarly(ConfigError)
                               ELSE \E rate \in DeviceRates, config \in DeviceConfigs :
                                      IF config[1] = "Other"
                                      THEN StartFailsLate(ConfigError, rate, FALSE)
                                      ELSE \E buildOk \in BOOLEAN :
                                             IF ~buildOk
                                             THEN StartFailsLate(StreamError, rate, FALSE)
                                             ELSE \E playOk \in BOOLEAN :
                                                    IF ~playOk
                                                    THEN StartFailsLate(StreamError, rate,
                                                                        TRUE)
                                                    ELSE /\ lastStart' = Ok
                                                         /\ peakStreams' =
                                                              StreamsWhileStarting(stream,
                                                                                   TRUE)
                                                         /\ source_sample_rate' = rate
                                                         /\ samples' = <<>>
                                                         /\ stream' =
                                                              StartedSession(config).stream
                                                         /\ is_recording' =
                                                              StartedSession(config).is_recording
                                                         /\ recording_start' =
                                                              StartedSession(config).recording_start
                                                         /\ elapsed' = 0
    /\ UNCHANGED <<settings_language, settings_use_gpu, deleting, pathVars,
                   engineVars, storeVars, downloadVars, callback, lastStop, stopCalls,
                   deviceProbe>>

\* the data callback up to its check of the flag (audio.rs 374-377)
CaptureBegin ==
    /\ stream # NoStream
    /\ callback = "idle"
    /\ callback' = IF is_recording THEN "passed" ELSE "idle"
    /\ UNCHANGED <<appVars, pathVars, engineVars, storeVars, downloadVars, recorderState,
                   lastStart, lastStop, stopCalls, startCalls, peakStreams, startSpace,
                   exportCall, deviceProbe>>

\* the channels of the stream the running callback belongs to; the session
\* may have dropped that stream by now
CallbackChannels == IF stream = NoStream THEN {1, 2} ELSE {Channels(stream)}

\* the rest of the data callback: the frames are mixed to mono and pushed,
\* the level stored (audio.rs 379-402)
CaptureEnd ==
    /\ callback = "passed"
    /\ callback' = "idle"
    /\ \E channels \in CallbackChannels :
       \E frames \in CallbackFrames(channels) :
         LET data == MixToMono(frames, channels)
         IN /\ Len(samples) + Len(data) <= MaxSamples
            /\ samples' = samples \o data
            /\ current_level' = IF Len(data) > 0 THEN LevelOf(data) ELSE current_level
    /\ UNCHANGED <<appVars, pathVars, engineVars, storeVars, downloadVars, is_recording, stream,
                   source_sample_rate, recording_start, stream_error, wavWritten,
                   lastStart, lastStop, stopCalls, startCalls, peakStreams, startSpace,
                   exportCall, deviceProbe>>

\* what the error callback leaves in stream_error (audio.rs 363-365)
LatchNothing(previous) == previous

LatchStreamError(previous) == "Some"

\* get_stream_error (audio.rs 250-252)
GetStreamError == stream_error

\* get_level (audio.rs 240-242)
GetLevel == current_level

\* the error callback of the input stream up to the store of the error
\* (audio.rs 359-365)
StreamErrorCallback ==
    /\ stream # NoStream
    /\ callback = "idle"
    /\ callback' = "latched"
    /\ stream_error' = LatchStreamError(stream_error)
    /\ UNCHANGED <<appVars, pathVars, engineVars, storeVars, downloadVars, is_recording,
                   current_level, stream, samples, source_sample_rate, recording_start,
                   wavWritten, lastStart, lastStop, stopCalls, startCalls, peakStreams,
                   startSpace, exportCall, deviceProbe>>

\* the rest of the error callback: the store to the flag (audio.rs 367-368)
StreamErrorStops ==
    /\ callback = "latched"
    /\ callback' = "idle"
    /\ is_recording' = FALSE
    /\ UNCHANGED <<appVars, pathVars, engineVars, storeVars, downloadVars, current_level, stream,
                   samples, source_sample_rate, recording_start, stream_error,
                   wavWritten, lastStart, lastStop, stopCalls, startCalls, peakStreams,
                   startSpace, exportCall, deviceProbe>>

\* clear_stream_error (audio.rs 255-259)
ClearStreamError ==
    /\ stream_error' = ClearedError(stream_error)
    /\ UNCHANGED <<appVars, pathVars, engineVars, storeVars, downloadVars, is_recording,
                   current_level, stream, samples, source_sample_rate, recording_start,
                   wavWritten, callback, lastStart, lastStop, stopCalls, startCalls,
                   peakStreams, startSpace, exportCall, deviceProbe>>

(***************************************************************************)
(* audio.rs: stop_recording, the resampler and the export.                 *)
(***************************************************************************)
\* the frames the resampler takes per chunk (input_frames_max, audio.rs 494)
ChunkFrames == 1

\* samples.chunks(chunk_size): the chunks in input order, the last one
\* possibly shorter (it is padded with zeros before it is processed)
RECURSIVE Chunks(_)
Chunks(s) ==
    IF s = <<>> THEN <<>>
    ELSE IF Len(s) <= ChunkFrames THEN <<s>>
    ELSE <<SubSeq(s, 1, ChunkFrames)>> \o Chunks(SubSeq(s, ChunkFrames + 1, Len(s)))

\* the output frames the resampler computes for chunk i stand in the output
\* as the number -i; the captured amplitudes of the model are not negative
ResampledBlock(i) == 0 - i

RECURSIVE ResampleFrom(_, _, _)
ResampleFrom(i, n, failed) ==
    IF i > n THEN <<>>
    ELSE (IF i \in failed THEN <<>> ELSE <<ResampledBlock(i)>>)
         \o ResampleFrom(i + 1, n, failed)

\* resample (audio.rs 468-527) once the resampler is made; failed is the set
\* of the chunks for which resampler.process returns an error
ResampleStrict(s, failed) ==
    IF failed # {} THEN [result |-> ResampleError, output |-> <<>>]
    ELSE [result |-> Ok, output |-> ResampleFrom(1, Len(Chunks(s)), failed)]

Resample(s, failed) ==
    [result |-> Ok, output |-> ResampleFrom(1, Len(Chunks(s)), failed)]

\* the conversion of export_wav (audio.rs 551-552): clamp to the full scale,
\* times i16::MAX, cut to a whole number; a resampled block stays a block
ToI16(sample) ==
    IF sample < 0 THEN sample
    ELSE ((IF sample > 10 THEN 10 ELSE sample) * 32767) \div 10

\* the WavSpec of export_wav (audio.rs 535-540), for a recording made at the
\* given source rate from a stream with the given config
WavSpecOfSource(rate, config) ==
    [channels |-> Channels(config), sample_rate |-> rate, bits_per_sample |-> 16,
     sample_format |-> IF config[1] = "F32" THEN "Float" ELSE "Int"]

WavSpecOf(rate, config) ==
    [channels |-> 1, sample_rate |-> WHISPER_SAMPLE_RATE, bits_per_sample |-> 16,
     sample_format |-> "Int"]

\* the file export_wav writes for the samples it is handed (audio.rs 530-563)
ExportWav(handed, rate, config) ==
    [header |-> WavSpecOf(rate, config),
     data |-> [i \in 1..Len(handed) |-> ToI16(handed[i])]]

\* the check stop_recording makes first (audio.rs 414-416)
StopRefusedNever(recording) == FALSE

StopRefused(recording) == ~recording

\* the check of the copied buffer (audio.rs 437-439)
EmptyBufferNever(s) == FALSE

EmptyBuffer(s) == s = <<>>

\* whether stop_recording resamples (audio.rs 449)
NeedsResampleAlways(rate) == TRUE

NeedsResample(rate) == rate # WHISPER_SAMPLE_RATE

\* the end of stop_recording: export_wav on the samples handed to it
\* (audio.rs 455-465)
StopExports(handed, resampled, failed) ==
    \E exportOk \in BOOLEAN :
       IF ~exportOk
       THEN /\ lastStop' = ExportError
            /\ exportCall' = [resampled |-> resampled, failed |-> failed,
                              called |-> TRUE, handed |-> handed, file |-> <<>>]
            /\ UNCHANGED wavWritten
       ELSE /\ lastStop' = StopOk
            /\ exportCall' = [resampled |-> resampled, failed |-> failed,
                              called |-> TRUE, handed |-> handed,
                              file |-> <<ExportWav(handed, source_sample_rate, stream)>>]
            /\ wavWritten' = wavWritten + 1

\* stop_recording (audio.rs 413-465)
StopRecording ==
    /\ stopCalls < MaxStopCalls
    /\ CanLock("audio_recorder")
    /\ stopCalls' = stopCalls + 1
    /\ IF StopRefused(is_recording)
       THEN /\ lastStop' = NotRecording
            /\ UNCHANGED <<recorderState, exportCall>>
       ELSE /\ is_recording' = FALSE
            /\ current_level' = 0
            /\ stream' = NoStream
            /\ UNCHANGED <<samples, source_sample_rate, recording_start, stream_error>>
            /\ IF EmptyBuffer(samples)
               THEN /\ lastStop' = NoAudioData
                    /\ exportCall' = NoExport
                    /\ UNCHANGED wavWritten
               ELSE IF NeedsResample(source_sample_rate)
               THEN \E initOk \in BOOLEAN :
                      IF ~initOk
                      THEN /\ lastStop' = ResampleError
                           /\ exportCall' = [NoExport EXCEPT !.resampled = TRUE]
                           /\ UNCHANGED wavWritten
                      ELSE \E failed \in SUBSET (1..Len(Chunks(samples))) :
                             LET out == Resample(samples, failed)
                             IN IF out.result # Ok
                                THEN /\ lastStop' = out.result
                                     /\ exportCall' = [NoExport EXCEPT
                                                          !.resampled = TRUE,
                                                          !.failed = failed]
                                     /\ UNCHANGED wavWritten
                                ELSE StopExports(out.output, TRUE, failed)
               ELSE StopExports(samples, FALSE, {})
    /\ UNCHANGED <<appVars, pathVars, engineVars, storeVars, downloadVars, callback, lastStart,
                   startCalls, peakStreams, startSpace, deviceProbe>>

\* audio.rs MAX_RECORDING_SECONDS
MAX_RECORDING_SECONDS == 360

\* the step of the clock, and the time after which the clock is not followed
TickSeconds == 180

MaxElapsed == 720

\* time goes by for a session that has a start instant
Tick ==
    /\ recording_start # None
    /\ elapsed + TickSeconds <= MaxElapsed
    /\ elapsed' = elapsed + TickSeconds
    /\ UNCHANGED <<settings_language, settings_use_gpu, deleting, pathVars,
                   engineVars, storeVars, downloadVars, recorderVars>>

vars == <<pathVars, engineVars, storeVars, downloadVars, recorderVars, appVars>>

(***************************************************************************)
(* Initial states.                                                         *)
(***************************************************************************)
NoDelete == [canon |-> NoPath, dirCanon |-> NoPath, removed |-> NoPath,
             result |-> NoResult]

\* WhisperManager::new()
InitEngine ==
    /\ settings_model = DefaultModel
    /\ context = None
    /\ loaded_model = None
    /\ lastEngine = NoEngineCall
    /\ settings_language = DefaultLanguage
    /\ settings_use_gpu = TRUE

\* no command is in flight
InitCommands ==
    /\ deleting = None

InitDownloads ==
    /\ mgr_cancel = [m \in Managers |-> FALSE]
    /\ mgr_bytes = [m \in Managers |-> 0]
    /\ mgr_progress = [m \in Managers |-> NoProgress]
    /\ dl = [c \in DownloadIds |-> DlIdle]
    /\ started = 0

\* an empty models directory
InitStoreEmpty == modelFiles = [p \in StorePaths |-> NoFile]

\* a models directory in which the configured model may have been installed
\* by an earlier run
InitStoreAny ==
    \E installed \in BOOLEAN :
        modelFiles = [p \in StorePaths |->
                    IF installed /\ p = Final(DefaultModel) THEN FullBody ELSE NoFile]

\* a models directory with whatever earlier runs left in it: installed models
\* and the temp files of downloads that did not finish
InitStoreLeft ==
    \E present \in SUBSET StorePaths :
        modelFiles = [p \in StorePaths |->
                        IF p \notin present THEN NoFile
                        ELSE IF p \in {Temp(m) : m \in WhisperModel} THEN <<1>>
                        ELSE FullBody]

\* no recordings, one file outside the recordings directory
InitRecordingsQuiet ==
    /\ recDirOk = TRUE
    /\ recFiles = [f \in RegularFiles |-> IF f = SecretFile THEN "bad" ELSE "absent"]
    /\ lastDelete = NoDelete
    /\ ta = TaIdle
    /\ contentRead = {}

\* whatever earlier runs and other programs left in and around the
\* recordings directory
InitRecordingsAny ==
    /\ recDirOk \in BOOLEAN
    /\ recFiles \in [RegularFiles -> FileKinds]
    /\ recFiles[SecretFile] \in {"bad", "wav"}
    /\ ~recDirOk => recFiles[RecordingA] = "absent"
    /\ lastDelete = NoDelete
    /\ ta = TaIdle
    /\ contentRead = {}

\* AudioRecorder::new()
InitRecorder ==
    /\ is_recording = FALSE
    /\ current_level = 0
    /\ stream = NoStream
    /\ samples = <<>>
    /\ source_sample_rate = 44100
    /\ recording_start = None
    /\ stream_error = None
    /\ callback = "idle"
    /\ wavWritten = 0
    /\ lastStart = NoResult
    /\ lastStop = NoResult
    /\ stopCalls = 0
    /\ startCalls = 0
    /\ peakStreams = 0
    /\ startSpace = NotQueried
    /\ exportCall = NoExport
    /\ deviceProbe = NoProbe
    /\ elapsed = 0

(***************************************************************************)
(* SpecPath: the commands that take a path.                                *)
(***************************************************************************)
InitPath ==
    InitRecordingsAny /\ InitEngine /\ InitStoreAny /\ InitDownloads /\ InitRecorder
    /\ InitCommands

NextPath ==
    \/ DeleteRecording
    \/ TranscribeAudioValidate
    \/ TranscribeAudioRun

SpecPath == InitPath /\ [][NextPath]_vars

(***************************************************************************)
(* SpecDownload: the download commands as lib.rs wires them.               *)
(***************************************************************************)
InitDownload ==
    InitRecordingsQuiet /\ InitEngine /\ InitStoreEmpty /\ InitDownloads /\ InitRecorder
    /\ InitCommands

NextDownload ==
    \/ \E c \in DownloadIds : DownloadWhisperModel(c)
    \/ \E c \in DownloadIds : DownloadResponse(c)
    \/ \E c \in DownloadIds : DownloadChunk(c)
    \/ \E c \in DownloadIds : DownloadEnd(c)
    \/ CancelWhisperDownload

SpecDownload == InitDownload /\ [][NextDownload]_vars

(***************************************************************************)
(* SpecManager: one WhisperManager (manager 0) used through its methods.   *)
(***************************************************************************)
NextManager ==
    \/ \E c \in DownloadIds : DownloadModel(c)
    \/ \E c \in DownloadIds : DownloadResponse(c)
    \/ \E c \in DownloadIds : DownloadChunk(c)
    \/ \E c \in DownloadIds : DownloadEnd(c)
    \/ CancelDownload

SpecManager == InitDownload /\ [][NextManager]_vars

(***************************************************************************)
(* SpecRecorder: the recorder, its stream callbacks, and its callers.      *)
(***************************************************************************)
NextRecorder ==
    \/ StartRecording
    \/ CaptureBegin
    \/ CaptureEnd
    \/ StreamErrorCallback
    \/ StreamErrorStops
    \/ ClearStreamError
    \/ StopRecording

SpecRecorder == InitDownload /\ [][NextRecorder]_vars

(***************************************************************************)
(* SpecRecorderClock: the control calls of the recorder, the error         *)
(* callback, and the clock.                                                *)
(***************************************************************************)
NextRecorderClock ==
    \/ StartRecording
    \/ StreamErrorCallback
    \/ StreamErrorStops
    \/ StopRecording
    \/ Tick

SpecRecorderClock == InitDownload /\ [][NextRecorderClock]_vars

(***************************************************************************)
(* SpecEngine: the engine's methods on the application's manager.          *)
(***************************************************************************)
InitEngineCalls ==
    InitRecordingsQuiet /\ InitEngine /\ InitStoreLeft /\ InitDownloads /\ InitRecorder
    /\ InitCommands

NextEngine ==
    \/ SetWhisperSettings
    \/ LoadWhisperModel
    \/ UnloadWhisperModel
    \/ TranscribeCall
    \/ DeleteWhisperModelUnload
    \/ DeleteWhisperModelRemove

SpecEngine == InitEngineCalls /\ [][NextEngine]_vars

(***************************************************************************)
(* SpecCommands: one download command and one delete command, and the      *)
(* commands to start and stop a recording and to load a model invoked      *)
(* while the download or the delete is under way.                          *)
(***************************************************************************)
\* a download command is waiting for its response or streaming
DownloadInFlight == \E c \in DownloadIds : dl[c].pc \in {"request", "stream"}

\* a download is in flight or a delete command is between its two steps
TransferInFlight == DownloadInFlight \/ deleting # None

NextCommands ==
    \/ started = 0 /\ DownloadWhisperModel(1)
    \/ DownloadResponse(1)
    \/ DownloadChunk(1)
    \/ DownloadEnd(1)
    \/ lastEngine.op # "delete_model" /\ DeleteWhisperModelUnload
    \/ DeleteWhisperModelRemove
    \/ TransferInFlight /\ startCalls = 0 /\ StartRecording
    \/ TransferInFlight /\ stopCalls = 0 /\ StopRecording
    \/ TransferInFlight /\ lastEngine.seq = 0 /\ LoadWhisperModel

SpecCommands == InitDownload /\ [][NextCommands]_vars

(***************************************************************************)
(* Specification of get_device called on its own.                          *)
(***************************************************************************)
NextGetDevice == GetDeviceCall

SpecGetDevice == InitDownload /\ [][NextGetDevice]_vars

(***************************************************************************)
(* Properties of the commands that take a path (SpecPath).                 *)
(***************************************************************************)
\* a canonical form was computed
Resolved(canon) == canon # Err /\ canon # NoPath

\* a canonical path is the directory base or lies below it
Within(canon, base) == \E k \in 0..Len(canon) : SubSeq(canon, 1, k) = base

\* C1: delete_recording and transcribe_audio reject every path whose canonical
\* form is not inside the canonical recordings directory, and before anything
\* happens: the file outside the directory is never removed and never read, a
\* removal is of a file inside the directory, and a rejected transcribe_audio
\* has not loaded the model, read the WAV content or run inference.
C1_OutsidePathsRejected ==
    /\ recFiles[SecretFile] # "absent"
    /\ SecretFile \notin contentRead
    /\ lastDelete.removed # NoPath => Within(lastDelete.removed, RecordingsDir)
    /\ (Resolved(lastDelete.canon) /\ ~Within(lastDelete.canon, RecordingsDir)) =>
          /\ lastDelete.result \in {ErrSecurity, ErrRecordingsDir}
          /\ lastDelete.removed = NoPath
    /\ (Resolved(ta.canon) /\ ~Within(ta.canon, RecordingsDir)) =>
          /\ ta.pc = "done"
          /\ ta.result \in {TaAccessDenied, TaRecordingsDir}
          /\ ~ta.loadAttempted /\ ~ta.wavRead /\ ~ta.inferenceRun

\* both commands have turned down the symbolic link that leads to the file
\* outside the recordings directory
C1_Witness ==
    /\ lastDelete.result = ErrSecurity
    /\ lastDelete.canon = SecretFile
    /\ ta.result = TaAccessDenied
    /\ ta.canon = SecretFile

\* C2: delete_recording answers a path-traversal attempt (both canonical forms
\* exist and the path's is not inside the directory's) with the security
\* error, answers nothing else with it, and that error differs from the errors
\* for a path that cannot be canonicalized, an unavailable recordings
\* directory and a failed removal.
C2_TraversalErrorDistinct ==
    /\ lastDelete.result = ErrSecurity <=>
          /\ Resolved(lastDelete.canon)
          /\ Resolved(lastDelete.dirCanon)
          /\ ~Within(lastDelete.canon, lastDelete.dirCanon)
    /\ lastDelete.canon = Err => lastDelete.result = ErrInvalidPath
    /\ (Resolved(lastDelete.canon) /\ lastDelete.dirCanon = Err) =>
          lastDelete.result = ErrRecordingsDir
    /\ lastDelete.result = ErrDeleteFailed =>
          Within(lastDelete.canon, lastDelete.dirCanon)

\* a path that climbs out of the recordings directory with ".." was answered
\* with the security error
C2_Witness ==
    /\ lastDelete.result = ErrSecurity
    /\ lastDelete.canon = <<>>
    /\ lastDelete.dirCanon = RecordingsDir

(***************************************************************************)
(* Properties of the model download.                                       *)
(***************************************************************************)
\* the step is call c returning from the request or the streaming loop
Returns(c) == dl[c].pc \in {"request", "stream"} /\ dl'[c].pc = "done"

\* the step is call c writing and counting one more chunk
WritesChunk(c) ==
    dl[c].pc = "stream" /\ dl'[c].pc = "stream" /\ dl'[c].offset > dl[c].offset

\* C3: a file at a model's final path is the complete body of a download
\* whose stream ended; download_model writes only to the temp file.
C3_FinalIsCompleteBody ==
    \A model \in WhisperModel : modelFiles[Final(model)] \in {NoFile, FullBody}

C5_ErrorsLeaveNoTemp ==
    [][\A c \in DownloadIds :
         (Returns(c) /\ dl'[c].result # Ok) =>
            /\ modelFiles'[Final(dl[c].model)] \in {NoFile, FullBody}
            /\ modelFiles'[Temp(dl[c].model)] = NoFile]_vars

\* C6: a download_model call that finds less free space than twice the
\* model's expected size fails with InsufficientSpace before any request, and
\* leaves the cancel flag, the byte counter, DownloadProgress and the files
\* as they were.
C6_PreflightRefuses ==
    [][\A c \in DownloadIds :
         (/\ started' = started + 1
          /\ dl'[c].seq = started'
          /\ dl'[c].avail >= 0
          /\ dl'[c].avail < 2 * ExpectedSize(dl'[c].model)) =>
            /\ dl'[c].pc = "done"
            /\ dl'[c].result = InsufficientSpace
            /\ ~dl'[c].requested
            /\ UNCHANGED <<mgr_cancel, mgr_bytes, mgr_progress, modelFiles>>]_vars

\* a call was refused for one KiB too little while another download, already
\* asked to cancel, kept its flag and its progress
C6_Witness ==
    \E c \in DownloadIds :
        /\ dl[c].pc = "done"
        /\ dl[c].result = InsufficientSpace
        /\ dl[c].avail = 2 * ExpectedSize(dl[c].model) - 1
        /\ dl[c].seq = started
        /\ mgr_cancel[AppManager]
        /\ GetDownloadProgress(AppManager) # NoProgress

\* C7 as stated: once cancel_download() was called on the manager of a
\* streaming download, that download writes and counts no further chunk and
\* ends with DownloadCancelled.
C7_CancelStopsAtNextChunk ==
    [][\A c \in DownloadIds :
         (dl[c].pc = "stream" /\ dl[c].cancelReq /\ dl[c].origin = "method") =>
            /\ ~WritesChunk(c)
            /\ mgr_bytes'[dl[c].mgr] <= mgr_bytes[dl[c].mgr]
            /\ Returns(c) => dl'[c].result = DownloadCancelled]_vars

\* C7: while the cancel flag of its manager is set, a streaming download
\* writes and counts no chunk, and the item that arrives ends it with
\* DownloadCancelled; only a call whose stream has delivered the whole body
\* can still end otherwise, at the end of the stream, which checks no flag.
C7_FlagStopsAtNextChunk ==
    [][\A c \in DownloadIds :
         (dl[c].pc = "stream" /\ mgr_cancel[dl[c].mgr]) =>
            /\ ~WritesChunk(c)
            /\ mgr_bytes'[dl[c].mgr] <= mgr_bytes[dl[c].mgr]
            /\ (Returns(c) /\ dl'[c].result # DownloadCancelled) =>
                  /\ dl[c].offset = BodyLen
                  /\ dl'[c].result \in {Ok, IoError}]_vars

\* of two downloads on the manager, both with a chunk written when
\* cancel_download() was called, one has ended with DownloadCancelled and the
\* other has not received its next item yet
C7_Witness ==
    \E c \in DownloadIds, x \in DownloadIds :
        /\ dl[c].pc = "done"
        /\ dl[c].result = DownloadCancelled
        /\ dl[x].pc = "stream"
        /\ dl[x].cancelReq
        /\ dl[x].offset > 0
        /\ mgr_cancel[dl[x].mgr]

\* C8: a download command that was streaming when cancel_whisper_download was
\* invoked writes no further chunk and does not install the model.
C8_CancelCommandStopsDownload ==
    [][\A c \in DownloadIds :
         (dl[c].pc = "stream" /\ dl[c].cancelReq /\ dl[c].origin = "command") =>
            /\ ~WritesChunk(c)
            /\ ~(Returns(c) /\ dl'[c].result = Ok)]_vars

\* C9: while one download command is streaming model M, the progress command
\* returns that download's record and the status command reports
\* downloading = true for M.
C9_PollersSeeTheDownload ==
    \A c \in DownloadIds :
        (/\ dl[c].pc = "stream"
         /\ dl[c].origin = "command"
         /\ \A x \in DownloadIds \ {c} : dl[x].pc \in {"idle", "done"}) =>
            /\ GetWhisperDownloadProgress # NoProgress
            /\ GetWhisperDownloadProgress.model = dl[c].model
            /\ GetWhisperModelStatus[dl[c].model].downloading

(***************************************************************************)
(* Properties of the recorder.                                             *)
(***************************************************************************)
\* C10: a stop_recording call made while the recording flag is false fails
\* with NotRecording and changes neither the flag, the level, the stream, the
\* buffer nor any other field, and writes no file.
C10_StopWhenNotRecording ==
    [][(stopCalls' = stopCalls + 1 /\ ~is_recording) =>
          /\ lastStop' = NotRecording
          /\ UNCHANGED recorderState]_vars

\* stop_recording was refused on a recorder that was never started, and again
\* after a stream error had ended a recording with samples in the buffer
C10_Witness ==
    /\ lastStop = NotRecording
    /\ stopCalls = 2
    /\ ~is_recording
    /\ stream # NoStream
    /\ stream_error = "Some"
    /\ samples # <<>>
    /\ wavWritten = 0

\* C11: a start_recording call made while the session is recording returns
\* success and does nothing: the buffer, the stream, the sample rate, the
\* start instant and every other field stay, and no stream is opened.
C11_StartWhileRecording ==
    [][(startCalls' = startCalls + 1 /\ is_recording) =>
          /\ lastStart' = Ok
          /\ peakStreams' = 1
          /\ UNCHANGED recorderState]_vars

\* a second start_recording found the session recording with samples in the
\* buffer, and they are still there
C11_Witness ==
    /\ startCalls = 2
    /\ lastStart = Ok
    /\ is_recording
    /\ samples # <<>>
    /\ peakStreams = 1

\* the step is the data callback storing the samples of a non-empty block
StoresBlock == callback = "passed" /\ callback' = "idle" /\ Len(samples') > Len(samples)

\* C12: get_level() is within 0..100 in every state; a block of silence
\* stores 0 and a block whose RMS times 300 is at least 100 stores 100.
C12_LevelInRange ==
    /\ GetLevel \in 0..100
    /\ [][/\ GetLevel' \in 0..100
          /\ StoresBlock =>
               LET amplitude == samples'[Len(samples')]
               IN /\ amplitude = 0 => GetLevel' = 0
                  /\ amplitude * 30 >= 100 => GetLevel' = 100
                  /\ amplitude * 30 < 100 => GetLevel' = amplitude * 30]_vars

\* a block of twice the full scale was captured and the level is 100
C12_Witness ==
    /\ samples # <<>>
    /\ samples[Len(samples)] = 20
    /\ GetLevel = 100
    /\ is_recording

\* C13: a stream error while recording ends the recording and latches the
\* error: the error callback stores the error and then clears the flag,
\* get_stream_error() returns the error until clear_stream_error() or the
\* next start_recording(), and the control calls do not return it (a stop
\* after it answers NotRecording).
C13_StreamErrorLatched ==
    [][/\ (callback = "idle" /\ callback' = "latched") => GetStreamError' = "Some"
       /\ (callback = "latched" /\ callback' = "idle") => ~is_recording'
       /\ (is_recording /\ ~is_recording' /\ stopCalls' = stopCalls) =>
             callback = "latched"
       /\ (GetStreamError = "Some" /\ GetStreamError' # "Some") =>
             \/ startCalls' = startCalls + 1
             \/ UNCHANGED <<is_recording, current_level, stream, samples,
                            source_sample_rate, recording_start, wavWritten,
                            callback, lastStart, lastStop, stopCalls, startCalls>>
       /\ (stopCalls' = stopCalls + 1 /\ GetStreamError = "Some" /\ ~is_recording) =>
             /\ lastStop' = NotRecording
             /\ GetStreamError' = "Some"
       /\ lastStop' # DeviceDisconnected
       /\ lastStart' # DeviceDisconnected]_vars

\* a stream error ended the first recording, a stop was then refused, and
\* the error is still there to be polled
C13_Witness ==
    /\ GetStreamError = "Some"
    /\ ~is_recording
    /\ recording_start = "Some"
    /\ startCalls = 1
    /\ lastStop = NotRecording

\* C14: the session never has two capture streams open: when
\* start_recording opens a stream, the one opened before is already dropped.
C14_OneStreamAtATime == peakStreams <= 1

(***************************************************************************)
(* Properties of the engine (SpecEngine).                                  *)
(***************************************************************************)
\* the step is a call of the engine method op
EngineStep(op) == lastEngine'.seq = lastEngine.seq + 1 /\ lastEngine'.op = op

\* C15: the engine never has two inference contexts at the same time:
\* update_settings with another model drops the context, and load_model
\* constructs a context only when none is live.
C15_OneContext ==
    /\ lastEngine.live <= 1
    /\ [][/\ lastEngine'.live <= 1
          /\ (EngineStep("update_settings") /\ settings_model' # settings_model) =>
                context' = None /\ loaded_model' = None
          /\ (EngineStep("load_model") /\ lastEngine'.attempted) => context = None]_vars

\* update_settings found a live context and switched to another model, and
\* the context is gone
C15_Witness ==
    /\ lastEngine.op = "update_settings"
    /\ lastEngine.live = 1
    /\ lastEngine.model # DefaultModel
    /\ context = None

\* C16: load_model with the configured model loaded and a live context
\* returns success, leaves context and loaded_model, and neither looks for the
\* model file nor reads it.
C16_LoadWhenLoaded ==
    [][(EngineStep("load_model") /\ loaded_model = settings_model /\ context # None) =>
          /\ lastEngine'.result = Ok
          /\ UNCHANGED <<context, loaded_model, modelFiles>>
          /\ ~lastEngine'.checked
          /\ ~lastEngine'.attempted
          /\ ~lastEngine'.built]_vars

\* a second load_model in a row found the model loaded
C16_Witness ==
    /\ lastEngine.op = "load_model"
    /\ lastEngine.repeat
    /\ lastEngine.result = Ok
    /\ ~lastEngine.checked
    /\ context = settings_model

\* C17: load_model with the configured model not loaded and its file absent
\* fails with ModelNotDownloaded, and a load_model that fails with
\* ModelLoadError has attempted the construction; both leave context and
\* loaded_model as they were.
C17_LoadFailureKeepsEngine ==
    [][EngineStep("load_model") =>
          /\ (~(loaded_model = settings_model /\ context # None)
                /\ modelFiles[Final(settings_model)] = NoFile) =>
                /\ lastEngine'.result = ModelNotDownloaded
                /\ ~lastEngine'.attempted
                /\ UNCHANGED <<context, loaded_model>>
          /\ lastEngine'.result = ModelLoadError =>
                /\ lastEngine'.attempted
                /\ UNCHANGED <<context, loaded_model>>
          /\ lastEngine'.result # Ok => UNCHANGED <<context, loaded_model>>]_vars

\* a load_model failed for a model that is not downloaded
C17_Witness ==
    /\ lastEngine.op = "load_model"
    /\ lastEngine.result = ModelNotDownloaded
    /\ modelFiles[Final(settings_model)] = NoFile
    /\ context = None
    /\ loaded_model = None

\* a load_model failed in the construction of the context
C17_WitnessLoadError ==
    /\ lastEngine.op = "load_model"
    /\ lastEngine.result = ModelLoadError
    /\ modelFiles[Final(settings_model)] # NoFile
    /\ context = None

\* the kinds of file that are no well-formed WAV file with samples
Malformed == {"bad", "empty", "damaged"}

\* C18: transcribe on a zero-length or malformed WAV file fails with
\* InvalidAudioFile, creates no inference state and runs no inference.
C18_MalformedNeverInferred ==
    [][(EngineStep("transcribe") /\ lastEngine'.wavKind \in Malformed) =>
          /\ lastEngine'.result = InvalidAudioFile
          /\ ~lastEngine'.stateCreated
          /\ ~lastEngine'.inferenceRun]_vars

\* C19: transcribe with no context loads the configured model first: when
\* the load succeeds the engine is left loaded with settings.model, and when
\* the model file is absent the call fails with ModelNotDownloaded, the engine
\* stays unloaded and the WAV file is not opened.
C19_TranscribeLoadsFirst ==
    [][(EngineStep("transcribe") /\ context = None) =>
          /\ lastEngine'.checked
          /\ lastEngine'.built =>
                context' = settings_model /\ loaded_model' = settings_model
          /\ (modelFiles[Final(settings_model)] # NoFile
                /\ lastEngine'.result # ModelLoadError) => lastEngine'.built
          /\ modelFiles[Final(settings_model)] = NoFile =>
                /\ lastEngine'.result = ModelNotDownloaded
                /\ context' = None
                /\ loaded_model' = None
                /\ ~lastEngine'.wavOpened]_vars

\* a transcribe call loaded the model and then failed on the WAV file: the
\* engine is loaded
C19_Witness ==
    /\ lastEngine.op = "transcribe"
    /\ lastEngine.built
    /\ lastEngine.result = InvalidAudioFile
    /\ context = settings_model
    /\ loaded_model = settings_model

\* the step is a delete_model(model) call
DeleteStep(model) == EngineStep("delete_model") /\ lastEngine'.model = model

\* the paths of the models directory other than the final path of model
OtherPaths(model) == StorePaths \ {Final(model)}

\* C20 as stated: delete_model(M) always returns success and leaves no file at
\* M's final path.
C20_DeleteAlwaysSucceeds ==
    [][\A model \in WhisperModel :
          DeleteStep(model) =>
             /\ lastEngine'.result = Ok
             /\ modelFiles'[Final(model)] = NoFile
             /\ \A p \in OtherPaths(model) : modelFiles'[p] = modelFiles[p]]_vars

\* C20: delete_model(M) returns success and leaves no file at M's final path
\* unless the removal itself fails, which gives IoError and changes nothing;
\* a call that finds no file returns success and changes nothing; no call
\* touches another model's file or a temp file.
C20_DeleteIdempotent ==
    [][\A model \in WhisperModel :
          DeleteStep(model) =>
             /\ lastEngine'.result \in {Ok, IoError}
             /\ lastEngine'.result = Ok => modelFiles'[Final(model)] = NoFile
             /\ lastEngine'.result = IoError =>
                   modelFiles[Final(model)] # NoFile /\ modelFiles' = modelFiles
             /\ modelFiles[Final(model)] = NoFile =>
                   /\ lastEngine'.result = Ok
                   /\ ~lastEngine'.attempted
                   /\ modelFiles' = modelFiles
             /\ \A p \in OtherPaths(model) : modelFiles'[p] = modelFiles[p]]_vars

\* a second delete_model of the same model found no file and returned
\* success, with the model's temp file and another model's file still there
C20_Witness ==
    \E model \in WhisperModel, other \in WhisperModel :
        /\ other # model
        /\ lastEngine.op = "delete_model"
        /\ lastEngine.model = model
        /\ lastEngine.repeat
        /\ ~lastEngine.attempted
        /\ lastEngine.result = Ok
        /\ modelFiles[Final(model)] = NoFile
        /\ modelFiles[Temp(model)] # NoFile
        /\ modelFiles[Final(other)] # NoFile

\* the step is a stop_recording call that found the session recording
StopStep == stopCalls' = stopCalls + 1 /\ is_recording

\* C21: stop_recording on a recording session with an empty buffer fails with
\* WavWriteError, exports nothing and writes no WAV file, and the session has
\* left Recording: the flag is false and the stream released.
C21_StopWithEmptyBuffer ==
    [][(StopStep /\ samples = <<>>) =>
          /\ lastStop' = NoAudioData
          /\ wavWritten' = wavWritten
          /\ ~exportCall'.called
          /\ ~exportCall'.resampled
          /\ ~is_recording'
          /\ stream' = NoStream]_vars

\* a recording was stopped before any sample was captured
C21_Witness ==
    /\ lastStop = NoAudioData
    /\ stopCalls = 1
    /\ startCalls = 1
    /\ samples = <<>>
    /\ ~is_recording
    /\ stream = NoStream
    /\ wavWritten = 0

\* the session is stopped: not recording, level 0, no stream
Stopped == ~is_recording /\ GetLevel = 0 /\ stream = NoStream

\* C22: after a stop_recording that was not refused the session is not
\* recording, its level is 0 and it holds no stream, and this stays so until
\* the next start_recording, whatever the callbacks do.
C22_StoppedStaysStopped ==
    [][/\ StopStep => Stopped'
       /\ (Stopped /\ stopCalls > 0 /\ startCalls' = startCalls) => Stopped']_vars

\* C23: a stop_recording that gets to the export has used the resampler
\* exactly when the source rate is not 16000; at 16000 it hands the buffered
\* samples to export_wav as they are, and the file has one converted sample
\* for each of them, in their order.
C23_ResampleWhenRateDiffers ==
    [][(StopStep /\ samples # <<>>) =>
          /\ exportCall'.resampled <=> source_sample_rate # WHISPER_SAMPLE_RATE
          /\ source_sample_rate = WHISPER_SAMPLE_RATE =>
                /\ exportCall'.called
                /\ exportCall'.handed = samples
                /\ lastStop' = StopOk =>
                      LET data == exportCall'.file[1].data
                      IN /\ Len(data) = Len(samples)
                         /\ \A i \in 1..Len(samples) : data[i] = ToI16(samples[i])]_vars

\* a recording of two samples made at 16000 Hz was exported as it was
C23_Witness ==
    /\ lastStop = StopOk
    /\ source_sample_rate = WHISPER_SAMPLE_RATE
    /\ ~exportCall.resampled
    /\ Len(samples) = 2
    /\ exportCall.handed = samples
    /\ samples[1] # samples[2]

\* a recording made at 44100 Hz went through the resampler
C23_WitnessResampled ==
    /\ lastStop = StopOk
    /\ source_sample_rate = 44100
    /\ exportCall.resampled
    /\ exportCall.handed # <<>>

\* C24: the WAV file of a successful stop_recording has the header
\* sample_rate 16000, channels 1, bits_per_sample 16, integer samples,
\* whatever the rate, the channels and the sample format of the device.
C24_WavHeader ==
    [][(StopStep /\ lastStop' = StopOk) =>
          /\ Len(exportCall'.file) = 1
          /\ exportCall'.file[1].header =
                [channels |-> 1, sample_rate |-> 16000, bits_per_sample |-> 16,
                 sample_format |-> "Int"]]_vars

\* a recording made at 44100 Hz was exported with the 16000 Hz header
C24_Witness ==
    /\ lastStop = StopOk
    /\ source_sample_rate = 44100
    /\ Len(exportCall.file) = 1
    /\ exportCall.file[1].header.sample_rate = 16000
    /\ exportCall.file[1].header.channels = 1
    /\ wavWritten = 1

\* the blocks of the chunks 1..n that did not fail, in input order
RemainingBlocks(n, failed) ==
    LET kept == SelectSeq([i \in 1..n |-> i], LAMBDA i : i \notin failed)
    IN [k \in 1..Len(kept) |-> ResampledBlock(kept[k])]

\* C25: a chunk that fails in the resampler contributes nothing and does not
\* fail the call: the stop goes on to export_wav with the outputs of the
\* other chunks in input order.
C25_FailedChunksOmitted ==
    [][(StopStep /\ exportCall'.failed # {}) =>
          /\ lastStop' \in {StopOk, ExportError}
          /\ exportCall'.called
          /\ exportCall'.handed = RemainingBlocks(Len(Chunks(samples)), exportCall'.failed)]_vars

\* the first of two chunks failed and the recording was exported with the
\* output of the second
C25_Witness ==
    /\ lastStop = StopOk
    /\ exportCall.failed = {1}
    /\ exportCall.handed = <<ResampledBlock(2)>>
    /\ Len(samples) = 2

\* the step is a start_recording call that found the session not recording
StartStep == startCalls' = startCalls + 1 /\ ~is_recording

\* C27: a start_recording from Idle checks the disk space before it touches
\* the device: with less than 100 MB free it fails with InsufficientSpace,
\* opens no stream and leaves the buffer; when the query fails it goes on as
\* with enough space.
C27_DiskPreflight ==
    [][StartStep =>
          /\ startSpace' \in SpaceChoices
          /\ (startSpace' # SpaceUnknown /\ startSpace' < 100 * 1024 * 1024) =>
                /\ lastStart' = AudioInsufficientSpace
                /\ peakStreams' = (IF stream = NoStream THEN 0 ELSE 1)
                /\ UNCHANGED <<samples, stream, is_recording, source_sample_rate,
                               recording_start>>
          /\ startSpace' = SpaceUnknown => lastStart' # AudioInsufficientSpace
          /\ lastStart' = AudioInsufficientSpace =>
                startSpace' # SpaceUnknown /\ startSpace' < 100 * 1024 * 1024]_vars

\* a start was refused for lack of space with the samples of the recording
\* before it still in the buffer
C27_Witness ==
    /\ lastStart = AudioInsufficientSpace
    /\ startSpace = 100 * 1024 * 1024 - 1
    /\ samples # <<>>
    /\ ~is_recording
    /\ startCalls = 2

\* a start went through although the free space could not be found out
C27_WitnessUnknown ==
    /\ lastStart = Ok
    /\ startSpace = SpaceUnknown
    /\ is_recording

\* s is t or t with samples appended
Extends(s, t) == Len(s) >= Len(t) /\ SubSeq(s, 1, Len(t)) = t

\* the step is the data callback returning
CallbackReturns == callback = "passed" /\ callback' = "idle"

\* C29: the buffer is append-only while the session is recording, is emptied
\* only by a start_recording that begins a new recording, is left as it is by
\* stop_recording, and a data callback that runs while the flag is false
\* appends nothing and leaves the level.
C29_BufferAppendOnly ==
    [][/\ is_recording => Extends(samples', samples)
       /\ (samples # <<>> /\ samples' = <<>>) => (StartStep /\ is_recording')
       /\ stopCalls' = stopCalls + 1 => samples' = samples
       /\ (CallbackReturns /\ ~is_recording) =>
             UNCHANGED <<samples, current_level>>]_vars

\* the stream error is set by the error callback only
ErrorOnlyFromCallback ==
    (GetStreamError # "Some" /\ GetStreamError' = "Some") => callback' = "latched"

\* C30 as stated: after every start_recording that returns success
\* get_stream_error() returns None until a new stream error occurs.
C30_SuccessfulStartClearsError ==
    [][/\ (startCalls' = startCalls + 1 /\ lastStart' = Ok) => GetStreamError' = None
       /\ ErrorOnlyFromCallback]_vars

\* C30: a start_recording that finds the session not recording clears the
\* stream error, whatever it returns, and get_stream_error() returns None
\* until the error callback stores a new error; a start_recording that finds
\* the session recording returns success and leaves the error as it is.
C30_StartClearsError ==
    [][/\ StartStep => GetStreamError' = None
       /\ (startCalls' = startCalls + 1 /\ is_recording) =>
             lastStart' = Ok /\ GetStreamError' = GetStreamError
       /\ ErrorOnlyFromCallback]_vars

\* a stream error ended a recording, and the start of the next one cleared it
C30_Witness ==
    /\ startCalls = 2
    /\ lastStart = Ok
    /\ is_recording
    /\ peakStreams = 2
    /\ GetStreamError = None
    /\ startSpace # NotQueried

\* get_device was called with a configured id / with none
ProbedWithId == deviceProbe.fn = "get_device" /\ deviceProbe.in.device_id # None

ProbedWithoutId == deviceProbe.fn = "get_device" /\ deviceProbe.in.device_id = None

\* without a configured id get_device returns the host's default input
\* device and fails with NoDefaultDevice when there is none
DefaultResolved ==
    ProbedWithoutId =>
       IF deviceProbe.in.default # None
       THEN deviceProbe.out = Device(deviceProbe.in.default)
       ELSE deviceProbe.out = NoDefaultDevice

\* C26 as stated: with a configured id get_device returns the device of that
\* id, and DeviceNotFound when there is none; without one the default device,
\* and NoDefaultDevice when there is none.
C26_DeviceResolution ==
    /\ ProbedWithId =>
          IF deviceProbe.in.device_id \in deviceProbe.in.devices
          THEN deviceProbe.out = Device(deviceProbe.in.device_id)
          ELSE deviceProbe.out = DeviceNotFound
    /\ DefaultResolved

\* C26: with a configured id get_device fails with ConfigError when the
\* host's input devices cannot be enumerated; otherwise it returns the device
\* of that id and fails with DeviceNotFound when there is none, never falling
\* back to the default device. Without a configured id it returns the default
\* device and fails with NoDefaultDevice when there is none.
C26_DeviceResolutionEnumerated ==
    /\ ProbedWithId =>
          IF ~deviceProbe.in.enumOk
          THEN deviceProbe.out = ConfigError
          ELSE IF deviceProbe.in.device_id \in deviceProbe.in.devices
               THEN deviceProbe.out = Device(deviceProbe.in.device_id)
               ELSE deviceProbe.out = DeviceNotFound
    /\ DefaultResolved

\* the configured device is not there, another one is the default, and
\* get_device fails with DeviceNotFound
C26_Witness ==
    /\ ProbedWithId
    /\ deviceProbe.in.enumOk
    /\ deviceProbe.in.device_id \notin deviceProbe.in.devices
    /\ deviceProbe.in.default # None
    /\ deviceProbe.out = DeviceNotFound

\* no id is configured and the default device is returned
C26_WitnessDefault ==
    /\ ProbedWithoutId
    /\ deviceProbe.in.default = "usb"
    /\ deviceProbe.out = Device("usb")

\* the step is call c passing the preflight of download_model
PassesPreflight(c) == dl[c].pc \in {"idle", "done"} /\ dl'[c].pc = "request"

\* what C28 says of a step of call c on its manager
ProgressFollows(c) ==
    /\ PassesPreflight(c) =>
          /\ ~mgr_cancel'[dl'[c].mgr]
          /\ mgr_bytes'[dl'[c].mgr] = 0
          /\ mgr_progress'[dl'[c].mgr] =
                [model |-> dl'[c].model, downloaded_bytes |-> 0,
                 total_bytes |-> ExpectedSize(dl'[c].model), complete |-> FALSE]
    /\ (Returns(c) /\ dl'[c].result = DownloadCancelled) =>
          mgr_progress'[dl[c].mgr] = NoProgress
    /\ (Returns(c) /\ dl'[c].result = Ok) =>
          /\ mgr_progress'[dl[c].mgr] # NoProgress
          /\ mgr_progress'[dl[c].mgr].model = dl[c].model
          /\ mgr_progress'[dl[c].mgr].complete
          /\ mgr_progress'[dl[c].mgr].downloaded_bytes =
                mgr_progress'[dl[c].mgr].total_bytes

\* C28: the DownloadProgress record of a manager describes the download
\* started last on it: a download_model call that passes the preflight resets
\* the cancel flag and the byte counter and puts a fresh record of its model
\* in place of an earlier one, a cancelled call leaves None, and a call that
\* finishes leaves the record of its model with complete = true and
\* downloaded_bytes = total_bytes.
C28_ProgressOfLatestDownload ==
    [][\A c \in DownloadIds : ProgressFollows(c)]_vars

\* a second download on the manager has put its record in place of the
\* record of the first, which had finished
C28_WitnessReplaced ==
    \E c \in DownloadIds, x \in DownloadIds :
        /\ dl[x].pc = "done" /\ dl[x].result = Ok /\ dl[x].mgr = AppManager
        /\ dl[c].pc = "request" /\ dl[c].mgr = AppManager
        /\ dl[c].model # dl[x].model
        /\ mgr_progress[AppManager] = SeededProgress(dl[c].model)

(***************************************************************************)
(* Properties of the manager's state (SpecEngine).                         *)
(***************************************************************************)
\* no method of the manager has been called and no command is in flight
FreshManager == lastEngine.seq = 0 /\ deleting = None

\* what WhisperManager::new() is to give
FreshDefaults ==
    /\ settings_model = "Small"
    /\ settings_language = "Auto"
    /\ settings_use_gpu = TRUE
    /\ context = None
    /\ loaded_model = None
    /\ GetDownloadProgress(AppManager) = NoProgress

\* C34: a freshly created manager has the settings Small, Auto, use_gpu true,
\* no context, no loaded model and no DownloadProgress, and the first
\* load_model or transcribe made without update_settings is for Small.
C34_FreshManagerDefaults ==
    /\ FreshManager => FreshDefaults
    /\ [][/\ FreshManager' => FreshDefaults'
          /\ (lastEngine.seq = 0 /\ (EngineStep("load_model") \/ EngineStep("transcribe"))) =>
                /\ lastEngine'.model = "Small"
                /\ context' \in {None, "Small"}
                /\ lastEngine'.built => context' = "Small" /\ loaded_model' = "Small"]_vars

\* the first call on the manager was a load_model, and it loaded Small
C34_Witness ==
    /\ lastEngine.seq = 1
    /\ lastEngine.op = "load_model"
    /\ lastEngine.built
    /\ context = "Small"
    /\ loaded_model = "Small"
    /\ settings_language = "Auto"
    /\ settings_use_gpu = TRUE

\* C35: loaded_model is Some exactly when a context is present, and then it
\* is settings.model; get_all_model_status reports loaded for at most one
\* model, and is_model_loaded() says whether it does for one.
C35_LoadedModelIsContext ==
    /\ loaded_model # None <=> context # None
    /\ loaded_model # None => loaded_model = settings_model
    /\ Cardinality({model \in WhisperModel : GetWhisperModelStatus[model].loaded}) <= 1
    /\ IsModelLoaded <=> \E model \in WhisperModel : GetWhisperModelStatus[model].loaded

\* after a change of the settings to Tiny, Tiny is loaded
C35_Witness ==
    /\ lastEngine.seq >= 2
    /\ settings_model = "Tiny"
    /\ loaded_model = "Tiny"
    /\ context = "Tiny"
    /\ GetWhisperModelStatus["Tiny"].loaded
    /\ IsModelLoaded

\* the engine holds a context of a model whose file is not there
Dangling(model) == context = model /\ modelFiles[Final(model)] = NoFile

\* C39: when a delete_whisper_model(M) command has returned success, the
\* engine holds no context of M with M's file absent, and none appears
\* later, whatever load_whisper_model and transcribe_audio commands run
\* between the two steps of the command.
C39_NoContextOfDeletedModel ==
    [][\A model \in WhisperModel :
         /\ (DeleteStep(model) /\ lastEngine'.result = Ok) => ~Dangling(model)'
         /\ (~Dangling(model) /\ ~DeleteStep(model)) => ~Dangling(model)']_vars

(***************************************************************************)
(* Properties of the recording session (SpecRecorder, SpecRecorderClock).  *)
(***************************************************************************)
\* C33: a recording never lasts longer than the maximum recording time: a
\* session that is recording started at most MAX_RECORDING_SECONDS ago.
C33_RecordingEndsInTime == is_recording => elapsed <= MAX_RECORDING_SECONDS

\* C36: whenever is_recording() is true the session holds a capture stream
\* and a start instant.
C36_RecordingHasStream ==
    is_recording => (stream # NoStream /\ recording_start # None)

\* a second recording runs after a stream error ended the first
C36_Witness ==
    /\ is_recording
    /\ startCalls = 2
    /\ stream # NoStream
    /\ recording_start = "Some"
    /\ peakStreams = 2

\* after a stream error the stream is still held while the flag is false
C36_WitnessConverse == ~is_recording /\ stream # NoStream /\ stream_error = "Some"

\* C37: when start_recording returns an error the session is not recording
\* and holds no stream that this call opened: the flag is false and the
\* stream field is as the call found it.
C37_FailedStartNotRecording ==
    [][(startCalls' = startCalls + 1 /\ lastStart' # Ok) =>
          /\ ~is_recording'
          /\ stream' = stream
          /\ recording_start' = recording_start]_vars

\* a start built its stream, failed to play it, and left the session idle
\* with no stream
C37_Witness ==
    /\ lastStart = StreamError
    /\ peakStreams = 1
    /\ stream = NoStream
    /\ ~is_recording
    /\ startCalls = 1

(***************************************************************************)
(* Properties of the downloads (SpecManager, SpecDownload), continued.     *)
(***************************************************************************)
\* the step in which call c finds its stream at its end and returns: after
\* the last chunk the stream may still yield an error, and the flag may be set
EndsStream(c) ==
    /\ Returns(c)
    /\ dl[c].pc = "stream"
    /\ dl[c].offset = BodyLen
    /\ dl'[c].result \notin {DownloadError, DownloadCancelled}

\* C32: download_model never returns HashVerificationFailed; a call that
\* comes to the end of its stream with its temp file in place either fails
\* at the rename with IoError or renames the file and returns Ok, whether or
\* not the hash of the body has the expected prefix.
C32_HashNeverChecked ==
    /\ \A c \in DownloadIds : dl[c].result # HashVerificationFailed
    /\ [][\A c \in DownloadIds :
            /\ dl'[c].result # HashVerificationFailed
            /\ EndsStream(c) =>
                 /\ dl'[c].result \in {Ok, IoError}
                 /\ dl'[c].result = Ok =>
                      /\ modelFiles'[Final(dl[c].model)] = modelFiles[Temp(dl[c].model)]
                      /\ modelFiles'[Temp(dl[c].model)] = NoFile]_vars

\* a download whose hash did not have the expected prefix has installed its
\* file and returned Ok
C32_Witness ==
    \E c \in DownloadIds :
        /\ dl[c].pc = "done"
        /\ dl[c].result = Ok
        /\ ~dl[c].hashOk
        /\ modelFiles[Final(dl[c].model)] # NoFile
        /\ modelFiles[Temp(dl[c].model)] = NoFile

\* the download_model calls for model that are running on manager m
RunningOn(m, model) ==
    {c \in DownloadIds :
        dl[c].pc \in {"request", "stream"} /\ dl[c].mgr = m /\ dl[c].model = model}

\* C38: get_all_model_status reports downloading = true for a model only
\* while a download_model call for that model is running on the manager; when
\* no call is running on it, downloading is false for every model.
C38_DownloadingOnlyWhileRunning ==
    \A m \in Managers : \A model \in WhisperModel :
        GetAllModelStatus(m)[model].downloading => RunningOn(m, model) # {}

\* the calls that have the temp file of model open for writing
TempWriters(model) ==
    {c \in DownloadIds : dl[c].pc = "stream" /\ dl[c].model = model /\ dl[c].file = "temp"}

\* C40: two overlapping download commands for one model never write the same
\* `.downloading` file at the same time, and neither renames or removes the
\* temp file the other is writing.
C40_OverlappingDownloadsApart ==
    /\ \A model \in WhisperModel : Cardinality(TempWriters(model)) <= 1
    /\ [][/\ \A model \in WhisperModel : Cardinality(TempWriters(model)') <= 1
          /\ \A c \in DownloadIds :
                Returns(c) => \A x \in Holders(c, dl[c].model, "temp") :
                                  dl'[x].file = "temp"]_vars

(***************************************************************************)
(* Properties of the locks of AppState (SpecCommands).                     *)
(***************************************************************************)
\* C31: while a download command is running and while delete_whisper_model
\* is between its unload and its removal of the file, neither the recorder
\* lock nor the manager lock is held: the commands to start and stop a
\* recording, to load a model and to transcribe can run.
C31_NoLockDuringTransfer ==
    TransferInFlight =>
        /\ CanLock("audio_recorder")
        /\ CanLock("whisper_manager")
        /\ startCalls < MaxStartCalls => ENABLED StartRecording
        /\ stopCalls < MaxStopCalls => ENABLED StopRecording
        /\ lastEngine.seq < MaxEngineCalls => ENABLED LoadWhisperModel
        /\ lastEngine.seq < MaxEngineCalls => ENABLED TranscribeCall

\* a download is streaming with a chunk written and a delete command is
\* between its two steps while a recording, started meanwhile, runs
C31_Witness ==
    /\ dl[1].pc = "stream"
    /\ dl[1].offset >= 1
    /\ is_recording
    /\ deleting # None

====
